---- MODULE Spec2Model ----
(***************************************************************************)
(* Three-tier seat lottery (client/src/core/lottery.ts) and the part of    *)
(* the useLottery hook that carries one round's score updates into the     *)
(* next round, locks seats for related parties and merges them, as Tier 0, *)
(* into the result of a run.                                               *)
(*                                                                         *)
(* Numbers.  Seat scores are the rationals the code computes in floating   *)
(* point.  Every score of one run has the denominator maxDistance, so a    *)
(* score is kept as the integer  score * maxDistance; averages over runs   *)
(* of the same length are kept as  avg * length * maxDistance * 5  (the 5  *)
(* makes the 20% solo bonus an integer).  An Assignment's totalScore is    *)
(* the pair <<sum of scaled scores, number of seats>>.  pastScore and      *)
(* skillWeight are kept in tenths, a random draw r in [0,1) as the integer *)
(* r * RandDen.                                                            *)
(***************************************************************************)
EXTENDS Integers, Sequences, FiniteSets, TLC

\* ------------------------------------------------------------------ bounds
MaxApps == 3
MaxRounds == 2
RandDen == 4
MaxPopulation == 8
MaxCalls == 6

\* -------------------------------------------------------- program constants
DefaultSkillWeight == 7
PremiumBonus == 1000
LoseChange == 60
MinScore == 10
MaxScore == 100

\* ------------------------------------------------------------------ helpers
Max(a, b) == IF a >= b THEN a ELSE b
Min(a, b) == IF a <= b THEN a ELSE b
SetMax(S) == CHOOSE m \in S : \A x \in S : x <= m
SetMin(S) == CHOOSE m \in S : \A x \in S : m <= x
Range(f) == {f[i] : i \in DOMAIN f}

RECURSIVE SumSeq(_)
SumSeq(s) == IF s = <<>> THEN 0 ELSE Head(s) + SumSeq(Tail(s))

RECURSIVE Flatten(_)
Flatten(ss) == IF ss = <<>> THEN <<>> ELSE Head(ss) \o Flatten(Tail(ss))

\* Array.prototype.sort(cmp), with less[i][j] telling whether cmp(seq[i], seq[j]) < 0:
\* the sort is stable, elements that compare equal keep their relative order.
StableSort(seq, less) ==
  LET n == Len(seq)
      pos(i) == Cardinality({j \in 1..n : less[j][i] \/ (~less[i][j] /\ j < i)}) + 1
  IN [p \in 1..n |-> seq[CHOOSE i \in 1..n : pos(i) = p]]

\* Mutant of RemoveAt: the head removed whatever the index.
RemoveHead(seq, i) == Tail(seq)

\* Array.prototype.splice(i, 1) on a 1-based index.
RemoveAt(seq, i) == SubSeq(seq, 1, i - 1) \o SubSeq(seq, i + 1, Len(seq))

\* ------------------------------------------------------------------ inputs
\* The venue: the caller's seat list, in list order (row 0 is not listed in
\* column order; seats 1 and 2 are equally far from the stage).  Seat 5 carries
\* a blockId but no row and no col (the optional fields of Seat are absent).
SeatPool ==
  << [id |-> 1, x |-> 0, y |-> 2, isPremium |-> FALSE, hasBlock |-> TRUE, blockId |-> "A",
      hasRow |-> TRUE, row |-> 0, hasCol |-> TRUE, col |-> 2],
     [id |-> 2, x |-> 2, y |-> 0, isPremium |-> FALSE, hasBlock |-> TRUE, blockId |-> "A",
      hasRow |-> TRUE, row |-> 0, hasCol |-> TRUE, col |-> 1],
     [id |-> 3, x |-> 0, y |-> 1, isPremium |-> FALSE, hasBlock |-> TRUE, blockId |-> "A",
      hasRow |-> TRUE, row |-> 0, hasCol |-> TRUE, col |-> 3],
     [id |-> 4, x |-> 3, y |-> 4, isPremium |-> TRUE, hasBlock |-> TRUE, blockId |-> "A",
      hasRow |-> TRUE, row |-> 1, hasCol |-> TRUE, col |-> 2],
     [id |-> 5, x |-> 0, y |-> 0, isPremium |-> FALSE, hasBlock |-> TRUE, blockId |-> "A",
      hasRow |-> FALSE, row |-> 0, hasCol |-> FALSE, col |-> 0] >>

SeatIds == {SeatPool[i].id : i \in DOMAIN SeatPool}

\* The caller's configuration: the stage, and config.skillWeight in tenths (left
\* out it takes its default; 0 and 1.2 lie on and beyond the ends of [0,1], 0.5
\* is a value a draw can hit exactly).
StagePosition == [x |-> 0, y |-> 0]
SkillWeights == {0, 5, DefaultSkillWeight, 12}

\* The customers that can apply, in database order.
Roster ==
  << [id |-> 1, groupSize |-> 1, isInvitation |-> TRUE,  isRelation |-> FALSE, pastScore |-> 50, lastResult |-> "lose"],
     [id |-> 2, groupSize |-> 2, isInvitation |-> FALSE, isRelation |-> TRUE,  pastScore |-> 50, lastResult |-> "none"],
     [id |-> 3, groupSize |-> 3, isInvitation |-> FALSE, isRelation |-> FALSE, pastScore |-> 70, lastResult |-> "lose"],
     [id |-> 4, groupSize |-> 1, isInvitation |-> FALSE, isRelation |-> FALSE, pastScore |-> 90, lastResult |-> "lose"],
     [id |-> 5, groupSize |-> 1, isInvitation |-> FALSE, isRelation |-> FALSE, pastScore |-> 90, lastResult |-> "win"],
     [id |-> 6, groupSize |-> 2, isInvitation |-> FALSE, isRelation |-> FALSE, pastScore |-> 30, lastResult |-> "none"],
     [id |-> 7, groupSize |-> 1, isInvitation |-> FALSE, isRelation |-> FALSE, pastScore |-> 90, lastResult |-> "lose"],
     [id |-> 8, groupSize |-> 1, isInvitation |-> FALSE, isRelation |-> FALSE, pastScore |-> 90, lastResult |-> "none"] >>

AppIds == {Roster[i].id : i \in DOMAIN Roster}

\* The sub-lists of the roster (database order kept) of at most MaxApps customers.
RECURSIVE SubLists(_, _)
SubLists(seq, n) ==
  IF seq = <<>> \/ n = 0 THEN {<<>>}
  ELSE SubLists(Tail(seq), n)
       \cup {<<Head(seq)>> \o t : t \in SubLists(Tail(seq), n - 1)}

\* ------------------------------------------------------- geometry scorer
\* Math.sqrt on the squared distances of the venue, all perfect squares.
Sqrt(n) == CHOOSE d \in 0..n : d * d = n

calculateDistance(x1, y1, x2, y2) ==
  Sqrt((x2 - x1) * (x2 - x1) + (y2 - y1) * (y2 - y1))

\* Mutant of calculateSeatScore: the premium bonus left out.
calculateSeatScoreByDistance(seat, stagePosition, maxDist) ==
  LET distance == calculateDistance(seat.x, seat.y, stagePosition.x, stagePosition.y)
      distanceScore == Max(0, 100 * maxDist - distance * 100)
  IN [id |-> seat.id, x |-> seat.x, y |-> seat.y, isPremium |-> seat.isPremium,
      isDisabled |-> seat.isDisabled, hasBlock |-> seat.hasBlock, blockId |-> seat.blockId,
      hasRow |-> seat.hasRow, row |-> seat.row, hasCol |-> seat.hasCol, col |-> seat.col,
      score |-> distanceScore, unit |-> maxDist,
      distanceFromStage |-> distance]

\* score is score * maxDistance; unit records that scale (= maxDistance).
calculateSeatScore(seat, stagePosition, maxDist) ==
  LET distance == calculateDistance(seat.x, seat.y, stagePosition.x, stagePosition.y)
      distanceScore == Max(0, 100 * maxDist - distance * 100)
      premiumBonus == IF seat.isPremium THEN PremiumBonus * maxDist ELSE 0
  IN [id |-> seat.id, x |-> seat.x, y |-> seat.y, isPremium |-> seat.isPremium,
      isDisabled |-> seat.isDisabled, hasBlock |-> seat.hasBlock, blockId |-> seat.blockId,
      hasRow |-> seat.hasRow, row |-> seat.row, hasCol |-> seat.hasCol, col |-> seat.col,
      score |-> distanceScore + premiumBonus, unit |-> maxDist,
      distanceFromStage |-> distance]

\* ------------------------------------------------------------ run builder
\* seat.blockId ?? 'default', seat.row ?? 0, seat.col ?? 0
BlockKey(s) == IF s.hasBlock THEN s.blockId ELSE "default"
RowKey(s) == IF s.hasRow THEN s.row ELSE 0
ColKey(s) == IF s.hasCol THEN s.col ELSE 0

\* The Map key `${blockId}_${row}`: the row is a number and holds no '_', so
\* two seats get the same key exactly when both parts agree.
GroupKey(s) == <<BlockKey(s), RowKey(s)>>

\* Map insertion order: the seats that open a new key, in list order.
GroupHeads(seats) ==
  SelectSeq([i \in 1..Len(seats) |-> i],
            LAMBDA i : \A j \in 1..(i - 1) : GroupKey(seats[j]) # GroupKey(seats[i]))

\* rowSeats.sort((a, b) => (a.col ?? 0) - (b.col ?? 0))
SortByCol(rowSeats) ==
  StableSort(rowSeats, [i \in 1..Len(rowSeats) |-> [j \in 1..Len(rowSeats) |->
                          ColKey(rowSeats[i]) < ColKey(rowSeats[j])]])

\* The rows of the Map in insertion order, each sorted by column.
GroupedRows(seats) ==
  [g \in 1..Len(GroupHeads(seats)) |->
     SortByCol(SelectSeq(seats, LAMBDA s : GroupKey(s) = GroupKey(seats[GroupHeads(seats)[g]])))]

\* The loop over one sorted row: cut where the column does not step by one.
RECURSIVE SplitChunks(_, _)
SplitChunks(rowSeats, chunkStart) ==
  IF chunkStart > Len(rowSeats) THEN <<>>
  ELSE LET n == Len(rowSeats)
           cuts == {i \in (chunkStart + 1)..(n + 1) :
                      IF i = n + 1 THEN TRUE
                      ELSE ColKey(rowSeats[i]) # ColKey(rowSeats[i - 1]) + 1}
           i == SetMin(cuts)
           chunkSeats == SubSeq(rowSeats, chunkStart, i - 1)
       IN <<[seats |-> chunkSeats, blockId |-> BlockKey(chunkSeats[1]),
             row |-> RowKey(chunkSeats[1]), startCol |-> ColKey(chunkSeats[1])]>>
          \o SplitChunks(rowSeats, i)

\* The chunks of all rows, row after row.
ChunksOfRows(rows) == Flatten([g \in 1..Len(rows) |-> SplitChunks(rows[g], 1)])

buildAllChunks(seats) == ChunksOfRows(GroupedRows(seats))

\* Mutant of getSubChunks: slice(i, i + size - 1), one seat short.
getSubChunksShort(chunk, size) ==
  IF Len(chunk.seats) < size THEN <<>>
  ELSE [i \in 1..(Len(chunk.seats) - size + 1) |->
          LET subSeats == SubSeq(chunk.seats, i, i + Max(size - 2, 0))
          IN [seats |-> subSeats,
              avgScore |-> 5 * SumSeq([k \in 1..Len(subSeats) |-> subSeats[k].score]),
              blockId |-> chunk.blockId, row |-> chunk.row, startCol |-> 0]]

\* avgScore here is  sum of the scaled scores * 5  (= avg * size * maxDistance * 5).
getSubChunks(chunk, size) ==
  IF Len(chunk.seats) < size THEN <<>>
  ELSE [i \in 1..(Len(chunk.seats) - size + 1) |->
          LET subSeats == SubSeq(chunk.seats, i, i + size - 1)
          IN [seats |-> subSeats,
              avgScore |-> 5 * SumSeq([k \in 1..size |-> subSeats[k].score]),
              blockId |-> chunk.blockId, row |-> chunk.row,
              startCol |-> ColKey(subSeats[1])]]

\* -------------------------------------------------------- group allocator
\* gridMap.get(`${blockId}_${row}_${col}`): the id of the last seat of the list
\* with all three coordinates defined and equal to these; {} when there is none.
GridGet(scoredSeats, blockId, row, col) ==
  LET hits == {i \in 1..Len(scoredSeats) :
                 /\ scoredSeats[i].hasBlock /\ scoredSeats[i].hasRow /\ scoredSeats[i].hasCol
                 /\ scoredSeats[i].blockId = blockId
                 /\ scoredSeats[i].row = row /\ scoredSeats[i].col = col}
  IN IF hits = {} THEN {} ELSE {scoredSeats[SetMax(hits)].id}

\* The free seats among the 8 neighbours of the seats held by solo guests.
SoloAdjacentIds(scoredSeats, assignedSeatIds, soloSeatIds) ==
  UNION { UNION { GridGet(scoredSeats, scoredSeats[i].blockId,
                          scoredSeats[i].row + d[1], scoredSeats[i].col + d[2])
                    \ assignedSeatIds :
                  d \in ((-1..1) \X (-1..1)) \ {<<0, 0>>} } :
          i \in {k \in 1..Len(scoredSeats) :
                   /\ scoredSeats[k].id \in soloSeatIds
                   /\ scoredSeats[k].hasBlock /\ scoredSeats[k].hasRow
                   /\ scoredSeats[k].hasCol} }

\* Mutant of WithSoloBonus: no bonus added.
WithSoloBonusOff(candidateChunks, soloAdjacentIds, unit) == candidateChunks

\* The candidates after the solo bonus (20% of max(best average, 1)).
WithSoloBonus(candidateChunks, soloAdjacentIds, unit) ==
  IF soloAdjacentIds = {} THEN candidateChunks
  ELSE LET maxScore == Max(SetMax({candidateChunks[i].avgScore :
                                     i \in 1..Len(candidateChunks)}), 5 * unit)
           bonus == maxScore \div 5
       IN [i \in 1..Len(candidateChunks) |->
             IF candidateChunks[i].seats[1].id \in soloAdjacentIds
             THEN [candidateChunks[i] EXCEPT !.avgScore = @ + bonus]
             ELSE candidateChunks[i]]

\* for (const chunk of allChunks) candidateChunks.push(...getSubChunks(chunk, groupSize))
SubChunksOfAll(allChunks, groupSize) ==
  Flatten([c \in 1..Len(allChunks) |-> getSubChunks(allChunks[c], groupSize)])

\* The sub-runs of the requested size over the free seats, in candidate order.
CandidateChunks(groupSize, available) ==
  SubChunksOfAll(buildAllChunks(available), groupSize)

\* Mutant of FreeSeats: the filter on assignedSeatIds forgotten.
FreeSeatsUnfiltered(scoredSeats, assignedSeatIds) == scoredSeats

\* scoredSeats.filter((s) => !assignedSeatIds.has(s.id))
FreeSeats(scoredSeats, assignedSeatIds) ==
  SelectSeq(scoredSeats, LAMBDA s : s.id \notin assignedSeatIds)

\* candidateChunks.sort((a, b) => b.avgScore - a.avgScore); candidateChunks[0]
TopChunk(chunks) ==
  StableSort(chunks, [i \in 1..Len(chunks) |-> [j \in 1..Len(chunks) |->
                        chunks[i].avgScore > chunks[j].avgScore]])[1]

\* findAndAllocateSeats from the candidates on: the solo bonus, the sort, the pick.
\* soloSeatIds = {} also stands for the argument being left out (both skip the
\* bonus).
PickFromCandidates(groupSize, scoredSeats, assignedSeatIds, soloSeatIds, candidateChunks) ==
  IF Len(candidateChunks) = 0 THEN <<>>
  ELSE IF groupSize = 1 /\ soloSeatIds # {}
  THEN TopChunk(WithSoloBonus(candidateChunks,
                              SoloAdjacentIds(scoredSeats, assignedSeatIds, soloSeatIds),
                              scoredSeats[1].unit)).seats
  ELSE TopChunk(candidateChunks).seats

\* findAndAllocateSeats from the free seats on.
PickFromAvailable(groupSize, scoredSeats, assignedSeatIds, soloSeatIds, available) ==
  IF Len(available) < groupSize THEN <<>>
  ELSE PickFromCandidates(groupSize, scoredSeats, assignedSeatIds, soloSeatIds,
                          CandidateChunks(groupSize, available))

\* Returns the granted seats, <<>> for null.
findAndAllocateSeats(groupSize, scoredSeats, assignedSeatIds, soloSeatIds) ==
  PickFromAvailable(groupSize, scoredSeats, assignedSeatIds, soloSeatIds,
                    FreeSeats(scoredSeats, assignedSeatIds))

\* ---------------------------------------------------------- tier classifier
IsPriority(app) == app.isInvitation \/ app.isRelation

\* Mutant of TierOf: isRelation forgotten.
TierOfInvitationOnly(app) ==
  IF app.isInvitation THEN 1
  ELSE IF app.lastResult = "lose" THEN 2
  ELSE 3

TierOf(app) ==
  IF app.isInvitation \/ app.isRelation THEN 1
  ELSE IF app.lastResult = "lose" THEN 2
  ELSE 3

\* Math.floor(r * n) for the draw r = k / RandDen.
FloorDraw(k, n) == (k * n) \div RandDen

Draws == 0..(RandDen - 1)

\* Fisher-Yates from 0-based index i down to 1: every order the draws can give.
RECURSIVE ShuffleFrom(_, _)
ShuffleFrom(arr, i) ==
  IF i <= 0 THEN {arr}
  ELSE UNION { LET j == FloorDraw(r, i + 1)
               IN ShuffleFrom([arr EXCEPT ![i + 1] = arr[j + 1], ![j + 1] = arr[i + 1]],
                              i - 1) : r \in Draws }

\* Fisher-Yates from 0-based index i down to 1 with the draws ds, one per pass.
RECURSIVE ShuffleWith(_, _, _)
ShuffleWith(arr, i, ds) ==
  IF i <= 0 THEN arr
  ELSE LET j == FloorDraw(Head(ds), i + 1)
       IN ShuffleWith([arr EXCEPT ![i + 1] = arr[j + 1], ![j + 1] = arr[i + 1]],
                      i - 1, Tail(ds))

\* Mutant of SortByPastScoreDesc: the sort left out.
SortByPastScoreNot(apps) == apps

\* sort((a, b) => b.pastScore - a.pastScore)
SortByPastScoreDesc(apps) ==
  StableSort(apps, [i \in 1..Len(apps) |-> [j \in 1..Len(apps) |->
                      apps[i].pastScore > apps[j].pastScore]])

\* ------------------------------------------------------------ quality rater
\* a.totalScore > b.totalScore on the pairs <<sum, count>>.
ScoreGreater(a, b) == a.totalScore.sum * b.totalScore.n > b.totalScore.sum * a.totalScore.n

QualityAt(i, total) ==
  IF 100 * i < 15 * total THEN "top"
  ELSE IF 100 * i < 40 * total THEN "good"
  ELSE IF 100 * i < 60 * total THEN "normal"
  ELSE IF 100 * i < 85 * total THEN "back"
  ELSE "far"

\* Mutant of SortByTotalScoreDesc: the comparison turned round.
SortByTotalScoreAsc(nonVip) ==
  StableSort(nonVip, [i \in 1..Len(nonVip) |-> [j \in 1..Len(nonVip) |->
                        ScoreGreater(nonVip[j], nonVip[i])]])

\* nonVipAssignments.sort((a, b) => b.totalScore - a.totalScore)
SortByTotalScoreDesc(nonVip) ==
  StableSort(nonVip, [i \in 1..Len(nonVip) |-> [j \in 1..Len(nonVip) |->
                        ScoreGreater(nonVip[i], nonVip[j])]])

\* The assignments, each of those in `sorted` labelled by its rank there.
LabelByRank(assignments, sorted) ==
  [k \in 1..Len(assignments) |->
     IF assignments[k].tier # 1
     THEN [assignments[k] EXCEPT !.seatQuality =
             QualityAt((CHOOSE i \in 1..Len(sorted) :
                          sorted[i].applicationId = assignments[k].applicationId) - 1,
                       Len(sorted))]
     ELSE assignments[k]]

\* The assignments with seatQuality set on every one whose tier is not 1.
assignSeatQuality(assignments) ==
  LabelByRank(assignments, SortByTotalScoreDesc(SelectSeq(assignments, LAMBDA a : a.tier # 1)))

\* ------------------------------------------------------------ score updater
\* Mutant of QualityChange: the signs turned round.
QualityChangeRewarding(q) ==
  CASE q = "top" -> 40
    [] q = "good" -> 15
    [] q = "normal" -> 0
    [] q = "back" -> -15
    [] q = "far" -> -40

QualityChange(q) ==
  CASE q = "top" -> -40
    [] q = "good" -> -15
    [] q = "normal" -> 0
    [] q = "back" -> 15
    [] q = "far" -> 40

\* applications.find((ap) => ap.id === id): the first match, {} when none.
FindApp(apps, id) ==
  LET hits == {i \in 1..Len(apps) : apps[i].id = id}
  IN IF hits = {} THEN {} ELSE {apps[SetMin(hits)]}

\* Mutant of Clamp: the raw score passed through.
ClampNot(v) == v

\* Math.max(minScore, Math.min(maxScore, nextRaw))
Clamp(v) == Max(MinScore, Min(MaxScore, v))

WinUpdate(a, app) ==
  LET quality == IF a.seatQuality = "none" THEN "normal" ELSE a.seatQuality
      nextScore == Clamp(app.pastScore + QualityChange(quality))
  IN IF app.isInvitation \/ app.isRelation
     THEN [applicationId |-> a.applicationId, currentScore |-> app.pastScore,
           nextScore |-> app.pastScore, change |-> 0, seatQuality |-> quality,
           lastResult |-> "win"]
     ELSE [applicationId |-> a.applicationId, currentScore |-> app.pastScore,
           nextScore |-> nextScore, change |-> nextScore - app.pastScore,
           seatQuality |-> quality, lastResult |-> "win"]

\* Mutant of LoseUpdate: the boost of a loss no larger than the step of a good seat.
LoseUpdateSmallBoost(id, app) ==
  LET nextScore == Clamp(app.pastScore + 15)
  IN IF app.isInvitation \/ app.isRelation
     THEN [applicationId |-> id, currentScore |-> app.pastScore,
           nextScore |-> app.pastScore, change |-> 0, seatQuality |-> "lose",
           lastResult |-> "lose"]
     ELSE [applicationId |-> id, currentScore |-> app.pastScore,
           nextScore |-> nextScore, change |-> nextScore - app.pastScore,
           seatQuality |-> "lose", lastResult |-> "lose"]

\* Mutant of LoseUpdate: the priority branch left out.
LoseUpdateBoostingAll(id, app) ==
  LET nextScore == Clamp(app.pastScore + LoseChange)
  IN [applicationId |-> id, currentScore |-> app.pastScore,
      nextScore |-> nextScore, change |-> nextScore - app.pastScore,
      seatQuality |-> "lose", lastResult |-> "lose"]

\* Mutant of LoseUpdate: the outcome of a loss recorded as 'win'.
LoseUpdateAsWin(id, app) ==
  LET nextScore == Clamp(app.pastScore + LoseChange)
  IN [applicationId |-> id, currentScore |-> app.pastScore,
      nextScore |-> IF app.isInvitation \/ app.isRelation THEN app.pastScore ELSE nextScore,
      change |-> 0, seatQuality |-> "lose", lastResult |-> "win"]

LoseUpdate(id, app) ==
  LET nextScore == Clamp(app.pastScore + LoseChange)
  IN IF app.isInvitation \/ app.isRelation
     THEN [applicationId |-> id, currentScore |-> app.pastScore,
           nextScore |-> app.pastScore, change |-> 0, seatQuality |-> "lose",
           lastResult |-> "lose"]
     ELSE [applicationId |-> id, currentScore |-> app.pastScore,
           nextScore |-> nextScore, change |-> nextScore - app.pastScore,
           seatQuality |-> "lose", lastResult |-> "lose"]

\* One pass of either loop: no update when the applicant is not found.
\* Mutant of WinUpdates: the seated applicants skipped.
WinUpdatesSkipped(a, found) == <<>>

WinUpdates(a, found) == IF found = {} THEN <<>> ELSE <<WinUpdate(a, CHOOSE ap \in found : TRUE)>>
LoseUpdates(id, found) == IF found = {} THEN <<>> ELSE <<LoseUpdate(id, CHOOSE ap \in found : TRUE)>>

calculateScoreUpdates(asg, unasg, apps) ==
  Flatten([k \in 1..Len(asg) |-> WinUpdates(asg[k], FindApp(apps, asg[k].applicationId))])
  \o
  Flatten([k \in 1..Len(unasg) |-> LoseUpdates(unasg[k], FindApp(apps, unasg[k]))])

\* The customer record after the next-event CSV is imported: the score and the
\* outcome of the customer's ScoreUpdate (nextScore.toFixed(1) keeps tenths).
ApplyUpdates(apps, updates) ==
  [i \in 1..Len(apps) |->
     LET hits == {k \in 1..Len(updates) : updates[k].applicationId = apps[i].id}
     IN IF hits = {} THEN apps[i]
        ELSE [apps[i] EXCEPT !.pastScore = updates[SetMin(hits)].nextScore,
                             !.lastResult = updates[SetMin(hits)].lastResult]]

\* ------------------------------------------------------------------- state
VARIABLES
  seats,               \* assignSeats' argument: the seat list
  applications,        \* assignSeats' argument: the applicant list
  skillWeight,         \* config.skillWeight, in tenths
  pc,                  \* where the run stands
  idx,                 \* position of the for-loop over the current tier
  scoredSeats,
  tier1Apps, tier2Apps, tier3Apps,
  remaining,           \* hybridSelection: candidates not yet selected
  tier3Selected,       \* hybridSelection: the ranked order so far
  lastPick,            \* history: the last pass of hybridSelection's loop, <<>> before it
  assignments, assignedSeatIds, soloSeatIds, unassigned, tier2OverflowCount,
  stats,               \* LotteryResult.stats once the run has returned
  scoreUpdates,        \* useLottery's scoreUpdates state
  attempts,            \* history: the calls of allocateApp of this run, in order
  round,               \* history: number of the current round
  lostBefore,          \* history: the ids left unassigned by the previous round
  source,              \* config.randomFn: how the draws of this run are produced
  firstRun,            \* history: the result of the run that is being repeated
  blocks,              \* useLottery: the seats of the editor's blocks, as runLottery reads them
  lockedSeats,         \* useLottery's lockedSeats state
  lockingState,        \* useLottery's lockingState, <<>> for null
  lotteryAssignments,  \* useLottery's assignments state (Tier 0 merged in)
  calls                \* history: how many calls the hook has taken

vars == <<seats, applications, skillWeight, pc, idx, scoredSeats, tier1Apps, tier2Apps,
          tier3Apps, remaining, tier3Selected, lastPick, assignments, assignedSeatIds, soloSeatIds,
          unassigned, tier2OverflowCount, stats, scoreUpdates, attempts, round, lostBefore,
          source, firstRun, blocks, lockedSeats, lockingState, lotteryAssignments, calls>>

inputVars == <<seats, applications, skillWeight>>
tierVars == <<scoredSeats, tier1Apps, tier2Apps, tier3Apps>>
hybridVars == <<remaining, tier3Selected, lastPick>>
allocVars == <<assignments, assignedSeatIds, soloSeatIds, attempts>>
hookVars == <<blocks, lockedSeats, lockingState, lotteryAssignments, calls>>
\* What no step of assignSeats touches: the history and the hook's own state.
histVars == <<round, lostBefore, firstRun, hookVars>>

ZeroStats ==
  [totalSeats |-> 0, availableSeats |-> 0, totalApplications |-> 0,
   totalPeopleAssigned |-> 0, averageScore |-> [sum |-> 0, n |-> 1],
   tier1Count |-> 0, tier2Count |-> 0, tier3Count |-> 0, tier2OverflowCount |-> 0]

\* The seat lists of the venue: any of its seats may be disabled.
SeatLists ==
  {[i \in 1..Len(SeatPool) |->
      [id |-> SeatPool[i].id, x |-> SeatPool[i].x, y |-> SeatPool[i].y,
       isPremium |-> SeatPool[i].isPremium, isDisabled |-> d[i],
       hasBlock |-> SeatPool[i].hasBlock, blockId |-> SeatPool[i].blockId,
       hasRow |-> SeatPool[i].hasRow, row |-> SeatPool[i].row,
       hasCol |-> SeatPool[i].hasCol, col |-> SeatPool[i].col]] :
   d \in [1..Len(SeatPool) -> BOOLEAN]}

RunStart ==
  /\ pc = "start"
  /\ idx = 1
  /\ scoredSeats = <<>>
  /\ tier1Apps = <<>> /\ tier2Apps = <<>> /\ tier3Apps = <<>>
  /\ remaining = <<>> /\ tier3Selected = <<>> /\ lastPick = <<>>
  /\ assignments = <<>> /\ assignedSeatIds = {} /\ soloSeatIds = {}
  /\ unassigned = <<>> /\ tier2OverflowCount = 0
  /\ stats = ZeroStats
  /\ scoreUpdates = <<>>
  /\ attempts = <<>>

\* The hook's own state when assignSeats is called directly.
HookUnused ==
  /\ blocks = <<>> /\ lockedSeats = <<>> /\ lockingState = <<>> /\ lotteryAssignments = <<>>
  /\ calls = 0

\* The random source: Math.random or any injected function ("free": each call
\* returns any draw), or an injected function whose draws are written down
\* ("record", log = the draws returned so far), or one that returns a given
\* sequence ("replay", pos = how many of log it has returned).
FreeSource == [mode |-> "free", log |-> <<>>, pos |-> 0]

Init ==
  /\ seats \in SeatLists
  /\ applications \in SubLists(Roster, MaxApps)
  /\ skillWeight \in SkillWeights
  /\ RunStart
  /\ round = 1
  /\ lostBefore = {}
  /\ source = FreeSource
  /\ firstRun = <<>>
  /\ HookUnused

\* ------------------------------------------------------------- assignSeats
AvailableSeats == SelectSeq(seats, LAMBDA s : ~s.isDisabled)

\* Mutant of TakeDraws: the draws taken from Math.random, not from randomFn.
TakeDrawsFromMathRandom(ds) ==
  source' = IF source.mode = "record" THEN [source EXCEPT !.log = @ \o ds] ELSE source

\* The calls of randomFn of one step return the draws ds.
TakeDraws(ds) ==
  CASE source.mode = "free" -> source' = source
    [] source.mode = "record" -> source' = [source EXCEPT !.log = @ \o ds]
    [] source.mode = "replay" ->
         /\ source.pos + Len(ds) <= Len(source.log)
         /\ SubSeq(source.log, source.pos + 1, source.pos + Len(ds)) = ds
         /\ source' = [source EXCEPT !.pos = @ + Len(ds)]

\* Mutant of AllIds: nobody listed.
AllIdsDropped(apps) == <<>>

\* applications.map((a) => a.id)
AllIds(apps) == [i \in 1..Len(apps) |-> apps[i].id]

\* Degenerate input: the early return.
ShortCircuit ==
  /\ pc = "start"
  /\ Len(AvailableSeats) = 0 \/ Len(applications) = 0
  /\ assignments' = <<>>
  /\ unassigned' = AllIds(applications)
  /\ stats' = [ZeroStats EXCEPT !.totalSeats = Len(seats),
                                !.totalApplications = Len(applications)]
  /\ pc' = "done"
  /\ UNCHANGED <<inputVars, source, idx, tierVars, hybridVars, assignedSeatIds, soloSeatIds,
                 tier2OverflowCount, scoreUpdates, attempts, histVars>>

\* Math.max(...distances) || 1
MaxDistance(available) ==
  LET m == SetMax({calculateDistance(available[i].x, available[i].y,
                                     StagePosition.x, StagePosition.y) :
                   i \in 1..Len(available)})
  IN IF m = 0 THEN 1 ELSE m

\* Mutant of Classified: the final else taken only when lastResult is absent.
ClassifiedDroppingWinners(t) ==
  SelectSeq(applications, LAMBDA app : TierOf(app) = t /\ ~(t = 3 /\ app.lastResult = "win"))

\* The tier lists of step 4, in input order.
Classified(t) == SelectSeq(applications, LAMBDA app : TierOf(app) = t)

\* Mutant of AfterTier1: the Tier-2 loop left out.
AfterTier1SkippingTier2(t2) == "hybrid"

\* The phase after the Tier-1 loop: the Tier-2 loop, which does nothing on an
\* empty list.
AfterTier1(t2) == IF t2 # <<>> THEN "tier2" ELSE "hybrid"

\* The caller's seat list after steps 1-3: filter and map return new arrays and
\* calculateSeatScore a new record ({...seat}), nothing is written to the list.
CallerSeats(list) == list

\* Mutant of CallerApplications: the Tier-2 sort done on the caller's array.
CallerApplicationsSorted(list) == SortByPastScoreDesc(list)

\* The caller's applicant list after step 4: the tier lists are new arrays, and
\* the shuffle and the sorts work on those.
CallerApplications(list) == list

\* Steps 1-4: filter, score, classify, shuffle Tier 1, sort Tier 2.
Prepare ==
  /\ pc = "start"
  /\ ~(Len(AvailableSeats) = 0 \/ Len(applications) = 0)
  /\ LET maxDistance == MaxDistance(AvailableSeats)
     IN scoredSeats' = [i \in 1..Len(AvailableSeats) |->
                          calculateSeatScore(AvailableSeats[i], StagePosition, maxDistance)]
  /\ \E ds \in [1..(Len(Classified(1)) - 1) -> Draws] :
       /\ tier1Apps' = ShuffleWith(Classified(1), Len(Classified(1)) - 1, ds)
       /\ TakeDraws(ds)
  /\ tier2Apps' = SortByPastScoreDesc(Classified(2))
  /\ tier3Apps' = Classified(3)
  /\ seats' = CallerSeats(seats)
  /\ applications' = CallerApplications(applications)
  /\ pc' = IF Classified(1) # <<>> THEN "tier1" ELSE AfterTier1(Classified(2))
  /\ idx' = 1
  /\ UNCHANGED <<skillWeight, hybridVars, allocVars, unassigned, tier2OverflowCount, stats,
                 scoreUpdates, histVars>>

\* The call of findAndAllocateSeats in allocateApp.
Allocated(app) ==
  findAndAllocateSeats(app.groupSize, scoredSeats, assignedSeatIds,
                       IF app.groupSize = 1 THEN soloSeatIds ELSE {})

\* Mutant of TotalScore: the 20% bonus counted into the score.
TotalScoreWithBonus(allocated) ==
  [sum |-> SumSeq([k \in 1..Len(allocated) |-> allocated[k].score + allocated[k].score \div 5]),
   n |-> Len(allocated)]

\* allocated.reduce((sum, s) => sum + s.score, 0) / allocated.length
TotalScore(allocated) ==
  [sum |-> SumSeq([k \in 1..Len(allocated) |-> allocated[k].score]), n |-> Len(allocated)]

\* allocateApp(app, tier), where `allocated` is what findAndAllocateSeats returned.
allocateApp(app, tier, allocated) ==
  LET ids == [k \in 1..Len(allocated) |-> allocated[k].id]
  IN /\ attempts' = Append(attempts,
                      [id |-> app.id, tier |-> tier, groupSize |-> app.groupSize,
                       assignedBefore |-> assignedSeatIds, soloBefore |-> soloSeatIds,
                       seatIds |-> ids])
     /\ IF allocated # <<>>
        THEN /\ assignedSeatIds' = assignedSeatIds \cup Range(ids)
             /\ soloSeatIds' = IF app.groupSize = 1 THEN soloSeatIds \cup Range(ids)
                               ELSE soloSeatIds
             /\ assignments' = Append(assignments,
                  [applicationId |-> app.id, seatIds |-> ids,
                   totalScore |-> TotalScore(allocated),
                   tier |-> tier, seatQuality |-> "none"])
        ELSE UNCHANGED <<assignedSeatIds, soloSeatIds, assignments>>

\* Step 5: one pass of the Tier-1 loop.
AllocateTier1 ==
  /\ pc = "tier1"
  /\ \E allocated \in {Allocated(tier1Apps[idx])} :
       /\ allocateApp(tier1Apps[idx], 1, allocated)
       /\ unassigned' = IF allocated = <<>>
                        THEN Append(unassigned, tier1Apps[idx].id) ELSE unassigned
  /\ IF idx < Len(tier1Apps)
     THEN idx' = idx + 1 /\ pc' = pc
     ELSE idx' = 1 /\ pc' = AfterTier1(tier2Apps)
  /\ UNCHANGED <<inputVars, source, tierVars, hybridVars, tier2OverflowCount, stats, scoreUpdates,
                 histVars>>

\* Mutant of CountOverflow: the increment forgotten.
CountOverflowNever(count) == count

\* tier2OverflowCount++
CountOverflow(count) == count + 1

\* Step 6: one pass of the Tier-2 loop.
AllocateTier2 ==
  /\ pc = "tier2"
  /\ \E allocated \in {Allocated(tier2Apps[idx])} :
       /\ allocateApp(tier2Apps[idx], 2, allocated)
       /\ IF allocated = <<>>
          THEN /\ unassigned' = Append(unassigned, tier2Apps[idx].id)
               /\ tier2OverflowCount' = CountOverflow(tier2OverflowCount)
          ELSE UNCHANGED <<unassigned, tier2OverflowCount>>
  /\ IF idx < Len(tier2Apps)
     THEN idx' = idx + 1 /\ pc' = pc
     ELSE idx' = 1 /\ pc' = "hybrid"
  /\ UNCHANGED <<inputVars, source, tierVars, hybridVars, stats, scoreUpdates, histVars>>

\* hybridSelection, entry: copy the candidates and sort by descending pastScore.
HybridBegin ==
  /\ pc = "hybrid"
  /\ remaining' = SortByPastScoreDesc(tier3Apps)
  /\ tier3Selected' = <<>>
  /\ lastPick' = <<>>
  /\ pc' = IF tier3Apps = <<>> THEN "finish" ELSE "select"
  /\ UNCHANGED <<inputVars, source, idx, tierVars, allocVars, unassigned, tier2OverflowCount,
                 stats, scoreUpdates, histVars>>

\* Mutant of HybridIndex: the random index taken whatever the first draw.
HybridIndexByLuck(r1, r2, n, sw) == FloorDraw(r2, n) + 1

\* The index chosen by one pass of the while loop for the draws r1 (and r2).
HybridIndex(r1, r2, n, sw) ==
  IF 10 * r1 < sw * RandDen THEN 1 ELSE FloorDraw(r2, n) + 1

\* The draws one pass of the while loop takes: the second only in the luck branch.
HybridDraws(r1, r2, sw) == IF 10 * r1 < sw * RandDen THEN <<r1>> ELSE <<r1, r2>>

\* hybridSelection, one pass of the while loop.
HybridStep ==
  /\ pc = "select"
  /\ \E r1 \in Draws, r2 \in Draws :
       LET i == HybridIndex(r1, r2, Len(remaining), skillWeight)
       IN /\ tier3Selected' = Append(tier3Selected, remaining[i])
          /\ remaining' = RemoveAt(remaining, i)
          /\ lastPick' = <<[draw |-> r1, from |-> remaining, chosen |-> remaining[i]]>>
          /\ TakeDraws(HybridDraws(r1, r2, skillWeight))
  /\ pc' = IF Len(remaining) = 1 THEN "tier3" ELSE pc
  /\ UNCHANGED <<inputVars, idx, tierVars, allocVars, unassigned, tier2OverflowCount,
                 stats, scoreUpdates, histVars>>

\* Step 7: one pass of the Tier-3 loop.
AllocateTier3 ==
  /\ pc = "tier3"
  /\ \E allocated \in {Allocated(tier3Selected[idx])} :
       /\ allocateApp(tier3Selected[idx], 3, allocated)
       /\ unassigned' = IF allocated = <<>>
                        THEN Append(unassigned, tier3Selected[idx].id) ELSE unassigned
  /\ IF idx < Len(tier3Selected)
     THEN idx' = idx + 1 /\ pc' = pc
     ELSE idx' = 1 /\ pc' = "finish"
  /\ UNCHANGED <<inputVars, source, tierVars, hybridVars, tier2OverflowCount, stats, scoreUpdates,
                 histVars>>

RECURSIVE Product(_)
Product(s) == IF s = <<>> THEN 1 ELSE Head(s) * Product(Tail(s))

\* The statistics of the normal return; averageScore is the pair <<sum, n>> of
\* the mean of the assignments' totalScores.
Statistics(asg) ==
  LET counts == [k \in 1..Len(asg) |-> Len(asg[k].seatIds)]
      p == Product(counts)
  IN [totalSeats |-> Len(seats),
      availableSeats |-> Len(AvailableSeats),
      totalApplications |-> Len(applications),
      totalPeopleAssigned |-> SumSeq(counts),
      averageScore |->
        IF Len(asg) > 0
        THEN [sum |-> SumSeq([k \in 1..Len(asg) |->
                                asg[k].totalScore.sum * (p \div asg[k].totalScore.n)]),
              n |-> p * Len(asg)]
        ELSE [sum |-> 0, n |-> 1],
      tier1Count |-> Len(SelectSeq(asg, LAMBDA a : a.tier = 1)),
      tier2Count |-> Len(SelectSeq(asg, LAMBDA a : a.tier = 2)),
      tier3Count |-> Len(SelectSeq(asg, LAMBDA a : a.tier = 3)),
      tier2OverflowCount |-> tier2OverflowCount]

\* Steps 8-9: quality labels, statistics, return.
Finish ==
  /\ pc = "finish"
  /\ assignments' = assignSeatQuality(assignments)
  /\ stats' = Statistics(assignments)
  /\ pc' = "done"
  /\ UNCHANGED <<inputVars, source, idx, tierVars, hybridVars, assignedSeatIds, soloSeatIds,
                 attempts, unassigned, tier2OverflowCount, scoreUpdates, histVars>>

\* ---------------------------------------------------------------- useLottery
\* runLottery, after assignSeats has returned: the score updates of the round.
ComputeScoreUpdates ==
  /\ pc = "done"
  /\ scoreUpdates' = calculateScoreUpdates(assignments, unassigned, applications)
  /\ pc' = "scored"
  /\ UNCHANGED <<inputVars, source, idx, tierVars, hybridVars, allocVars, unassigned,
                 tier2OverflowCount, stats, histVars>>

\* The next event: the customers re-apply with the scores and outcomes of the
\* exported score updates, for the same venue.
NextRound ==
  /\ pc = "scored"
  /\ round < MaxRounds
  /\ applications' = ApplyUpdates(applications, scoreUpdates)
  /\ lostBefore' = Range(unassigned)
  /\ round' = round + 1
  /\ pc' = "start"
  /\ idx' = 1
  /\ scoredSeats' = <<>>
  /\ tier1Apps' = <<>> /\ tier2Apps' = <<>> /\ tier3Apps' = <<>>
  /\ remaining' = <<>> /\ tier3Selected' = <<>> /\ lastPick' = <<>>
  /\ assignments' = <<>> /\ assignedSeatIds' = {} /\ soloSeatIds' = {}
  /\ unassigned' = <<>> /\ tier2OverflowCount' = 0
  /\ stats' = ZeroStats
  /\ scoreUpdates' = <<>>
  /\ attempts' = <<>>
  /\ UNCHANGED <<seats, skillWeight, source, firstRun, hookVars>>

Next ==
  \/ ShortCircuit
  \/ Prepare
  \/ AllocateTier1
  \/ AllocateTier2
  \/ HybridBegin
  \/ HybridStep
  \/ AllocateTier3
  \/ Finish
  \/ ComputeScoreUpdates

Spec == Init /\ [][Next]_vars

NextRounds == Next \/ NextRound

SpecRounds == Init /\ [][NextRounds]_vars

\* ------------------------------------------------------- the run repeated
\* assignSeats called a second time with the same seats, applicants and
\* configuration and a random source that returns the draws of the first call
\* again.  The venues are the full one and the one without seats 3 and 5.
ReplaySeatLists == {sl \in SeatLists : \A i \in 1..Len(sl) : sl[i].isDisabled <=> i \in {3, 5}}
                   \cup {sl \in SeatLists : \A i \in 1..Len(sl) : ~sl[i].isDisabled}

InitReplay ==
  /\ seats \in ReplaySeatLists
  /\ applications \in SubLists(Roster, MaxApps)
  /\ skillWeight \in SkillWeights
  /\ RunStart
  /\ round = 1
  /\ lostBefore = {}
  /\ source = [mode |-> "record", log |-> <<>>, pos |-> 0]
  /\ firstRun = <<>>
  /\ HookUnused

\* The second call: the first result is kept for comparison.
Replay ==
  /\ pc = "done"
  /\ source.mode = "record"
  /\ firstRun' = <<[assignments |-> assignments, unassigned |-> unassigned, stats |-> stats]>>
  /\ source' = [mode |-> "replay", log |-> source.log, pos |-> 0]
  /\ pc' = "start"
  /\ idx' = 1
  /\ scoredSeats' = <<>>
  /\ tier1Apps' = <<>> /\ tier2Apps' = <<>> /\ tier3Apps' = <<>>
  /\ remaining' = <<>> /\ tier3Selected' = <<>> /\ lastPick' = <<>>
  /\ assignments' = <<>> /\ assignedSeatIds' = {} /\ soloSeatIds' = {}
  /\ unassigned' = <<>> /\ tier2OverflowCount' = 0
  /\ stats' = ZeroStats
  /\ scoreUpdates' = <<>>
  /\ attempts' = <<>>
  /\ UNCHANGED <<inputVars, round, lostBefore, hookVars>>

NextReplay == Next \/ Replay

SpecReplay == InitReplay /\ [][NextReplay]_vars

\* ------------------------------------------------- venues by premium seats
\* Every seat enabled, any of the seats 2, 3 and 4 premium.
PremiumSeatLists ==
  {[i \in 1..Len(SeatPool) |->
      [id |-> SeatPool[i].id, x |-> SeatPool[i].x, y |-> SeatPool[i].y,
       isPremium |-> SeatPool[i].id \in ps, isDisabled |-> FALSE,
       hasBlock |-> SeatPool[i].hasBlock, blockId |-> SeatPool[i].blockId,
       hasRow |-> SeatPool[i].hasRow, row |-> SeatPool[i].row,
       hasCol |-> SeatPool[i].hasCol, col |-> SeatPool[i].col]] :
   ps \in SUBSET {2, 3, 4}}

InitPremium ==
  /\ seats \in PremiumSeatLists
  /\ applications \in SubLists(Roster, MaxApps)
  /\ skillWeight = DefaultSkillWeight
  /\ RunStart
  /\ round = 1
  /\ lostBefore = {}
  /\ source = FreeSource
  /\ firstRun = <<>>
  /\ HookUnused

SpecPremium == InitPremium /\ [][Next]_vars

\* --------------------------------------------- useLottery: locking and a run

\* The customers the panel lists (a related party of 2, a returning loser, a
\* party of 2 with no history), and the venue the editor holds: the editor's
\* seats always carry a row and a column.
Customers == <<Roster[2], Roster[4], Roster[6]>>
CustomerIds == {Customers[i].id : i \in DOMAIN Customers}

Venues ==
  {SelectSeq(sl, LAMBDA s : s.hasRow) :
     sl \in {l \in SeatLists : \/ \A i \in DOMAIN l : ~l[i].isDisabled
                               \/ \A i \in DOMAIN l : l[i].isDisabled <=> ~l[i].isPremium}}

customerToApplication(customer, groupSize) ==
  [id |-> customer.id, groupSize |-> groupSize, isInvitation |-> customer.isInvitation,
   isRelation |-> customer.isRelation, pastScore |-> customer.pastScore,
   lastResult |-> customer.lastResult]

RECURSIVE FlatSeatIds(_)
FlatSeatIds(locked) ==
  IF locked = <<>> THEN {} ELSE Range(Head(locked).seatIds) \cup FlatSeatIds(Tail(locked))

\* Mutant of DisableLocked: the locked seats left enabled.
DisableLockedNot(lotterySeats, locked) == lotterySeats

\* runLottery's second loop over lotterySeats: a seat some LockedSeat holds is
\* disabled for this run.
DisableLocked(lotterySeats, locked) ==
  [i \in DOMAIN lotterySeats |->
     IF lotterySeats[i].id \in FlatSeatIds(locked)
     THEN [lotterySeats[i] EXCEPT !.isDisabled = TRUE]
     ELSE lotterySeats[i]]

Tier0Assignment(locked) ==
  [applicationId |-> locked.customerId, seatIds |-> locked.seatIds, tier |-> 0,
   isRelation |-> TRUE, groupSize |-> locked.groupSize]

EngineAssignment(a, apps) ==
  LET app == FindApp(apps, a.applicationId)
  IN [applicationId |-> a.applicationId, seatIds |-> a.seatIds, tier |-> a.tier,
      isRelation |-> IF app = {} THEN FALSE ELSE (CHOOSE x \in app : TRUE).isRelation,
      groupSize |-> IF app = {} THEN 1 ELSE (CHOOSE x \in app : TRUE).groupSize]

\* newAssignments after "for (const locked of lockedSeats) newAssignments.unshift(...)".
RECURSIVE UnshiftLocked(_, _)
UnshiftLocked(newAssignments, locked) ==
  IF locked = <<>> THEN newAssignments
  ELSE UnshiftLocked(<<Tier0Assignment(Head(locked))>> \o newAssignments, Tail(locked))

HookIdle == pc \in {"idle", "merged"}

\* One more call of a function of the hook, in a session of at most MaxCalls.
Call ==
  /\ HookIdle
  /\ calls < MaxCalls
  /\ calls' = calls + 1

\* What the hook forgets with setLastResult(null), setScoreUpdates([]) and
\* setAssignments([]); the locals of a finished assignSeats call are gone too.
ClearRun ==
  /\ idx' = 1
  /\ scoredSeats' = <<>>
  /\ tier1Apps' = <<>> /\ tier2Apps' = <<>> /\ tier3Apps' = <<>>
  /\ remaining' = <<>> /\ tier3Selected' = <<>> /\ lastPick' = <<>>
  /\ assignments' = <<>> /\ assignedSeatIds' = {} /\ soloSeatIds' = {}
  /\ unassigned' = <<>> /\ tier2OverflowCount' = 0
  /\ stats' = ZeroStats
  /\ scoreUpdates' = <<>>
  /\ attempts' = <<>>

KeepRun ==
  UNCHANGED <<idx, tierVars, hybridVars, allocVars, unassigned, tier2OverflowCount, stats,
              scoreUpdates, attempts>>

NotLockedCustomers(customers, locked) ==
  SelectSeq(customers, LAMBDA c : \A i \in DOMAIN locked : locked[i].customerId # c.id)

LoadFromCustomers ==
  /\ Call
  /\ \E customers \in SubLists(Customers, Len(Customers)) :
       \E filtered \in {NotLockedCustomers(customers, lockedSeats)} :
         applications' = [i \in DOMAIN filtered |->
                            customerToApplication(filtered[i], filtered[i].groupSize)]
  /\ lotteryAssignments' = <<>>
  /\ ClearRun
  /\ pc' = "idle"
  /\ UNCHANGED <<seats, skillWeight, source, round, lostBefore, firstRun, blocks, lockedSeats,
                 lockingState>>

StartLocking ==
  /\ Call
  /\ \E c \in DOMAIN Customers :
       lockingState' = <<[customer |-> Customers[c], remainingSeats |-> Customers[c].groupSize,
                          placedSeatIds |-> <<>>]>>
  /\ pc' = "idle"
  /\ KeepRun
  /\ UNCHANGED <<inputVars, source, round, lostBefore, firstRun, blocks, lockedSeats,
                 lotteryAssignments>>

\* cancelLocking's filter of lockedSeats, by the entries' base seat.
CancelKept(locked, placedSeatIds) ==
  SelectSeq(locked, LAMBDA ls : ls.seatId \notin Range(placedSeatIds))

CancelLocking ==
  /\ Call
  /\ lockedSeats' = IF lockingState # <<>> /\ Len(lockingState[1].placedSeatIds) > 0
                    THEN CancelKept(lockedSeats, lockingState[1].placedSeatIds)
                    ELSE lockedSeats
  /\ lockingState' = <<>>
  /\ pc' = "idle"
  /\ KeepRun
  /\ UNCHANGED <<inputVars, source, round, lostBefore, firstRun, blocks, lotteryAssignments>>

\* Mutant of AlreadyLocked: the check against the finalized entries left out.
AlreadyLockedNever(seatId, locked) == FALSE

\* handleLockSeatClick's first guard on the clicked seat.

AlreadyLocked(seatId, locked) == seatId \in FlatSeatIds(locked)

HandleLockSeatClick ==
  /\ Call
  /\ lockingState # <<>>
  /\ \E s \in DOMAIN blocks :
       \E seatId \in {blocks[s].id} :
         /\ ~AlreadyLocked(seatId, lockedSeats)
         /\ seatId \notin Range(lockingState[1].placedSeatIds)
         /\ \E newPlacedSeatIds \in {Append(lockingState[1].placedSeatIds, seatId)},
               newRemaining \in {lockingState[1].remainingSeats - 1} :
              IF newRemaining <= 0
              THEN /\ lockedSeats' = Append(lockedSeats,
                                       [seatId |-> newPlacedSeatIds[1],
                                        customerId |-> lockingState[1].customer.id,
                                        groupSize |-> lockingState[1].customer.groupSize,
                                        seatIds |-> newPlacedSeatIds])
                   /\ lockingState' = <<>>
              ELSE /\ lockingState' = <<[lockingState[1] EXCEPT
                                           !.remainingSeats = newRemaining,
                                           !.placedSeatIds = newPlacedSeatIds]>>
                   /\ UNCHANGED lockedSeats
  /\ pc' = "idle"
  /\ KeepRun
  /\ UNCHANGED <<inputVars, source, round, lostBefore, firstRun, blocks, lotteryAssignments>>

UnlockCustomer ==
  /\ Call
  /\ \E customerId \in CustomerIds :
       /\ \E i \in DOMAIN lockedSeats : lockedSeats[i].customerId = customerId
       /\ lockedSeats' = SelectSeq(lockedSeats, LAMBDA ls : ls.customerId # customerId)
  /\ pc' = "idle"
  /\ KeepRun
  /\ UNCHANGED <<inputVars, source, round, lostBefore, firstRun, blocks, lockingState,
                 lotteryAssignments>>

Reset ==
  /\ Call
  /\ applications' = <<>>
  /\ lotteryAssignments' = <<>>
  /\ lockedSeats' = <<>>
  /\ lockingState' = <<>>
  /\ ClearRun
  /\ pc' = "idle"
  /\ UNCHANGED <<seats, skillWeight, source, round, lostBefore, firstRun, blocks>>

\* runLottery up to the call of assignSeats.
RunLottery ==
  /\ Call
  /\ applications # <<>> /\ blocks # <<>>
  /\ seats' = DisableLocked(blocks, lockedSeats)
  /\ ClearRun
  /\ pc' = "start"
  /\ UNCHANGED <<applications, skillWeight, source, round, lostBefore, firstRun, blocks,
                 lockedSeats, lockingState, lotteryAssignments>>

\* runLottery after calculateScoreUpdates: the engine's assignments with the
\* locked parties put in front.
MergeTier0 ==
  /\ pc = "scored"
  /\ lotteryAssignments' =
       UnshiftLocked([i \in DOMAIN assignments |-> EngineAssignment(assignments[i], applications)],
                     lockedSeats)
  /\ pc' = "merged"
  /\ idx' = 1
  /\ scoredSeats' = <<>>
  /\ tier1Apps' = <<>> /\ tier2Apps' = <<>> /\ tier3Apps' = <<>>
  /\ remaining' = <<>> /\ tier3Selected' = <<>> /\ lastPick' = <<>>
  /\ assignedSeatIds' = {} /\ soloSeatIds' = {}
  /\ tier2OverflowCount' = 0
  /\ attempts' = <<>>
  /\ UNCHANGED <<inputVars, source, assignments, unassigned, stats, scoreUpdates, round,
                 lostBefore, firstRun, blocks, lockedSeats, lockingState, calls>>

InitHook ==
  /\ blocks \in Venues
  /\ seats = <<>>
  /\ applications = <<>>
  /\ skillWeight = DefaultSkillWeight
  /\ lockedSeats = <<>> /\ lockingState = <<>> /\ lotteryAssignments = <<>>
  /\ calls = 0
  /\ pc = "idle"
  /\ idx = 1
  /\ scoredSeats = <<>>
  /\ tier1Apps = <<>> /\ tier2Apps = <<>> /\ tier3Apps = <<>>
  /\ remaining = <<>> /\ tier3Selected = <<>> /\ lastPick = <<>>
  /\ assignments = <<>> /\ assignedSeatIds = {} /\ soloSeatIds = {}
  /\ unassigned = <<>> /\ tier2OverflowCount = 0
  /\ stats = ZeroStats
  /\ scoreUpdates = <<>>
  /\ attempts = <<>>
  /\ round = 1
  /\ lostBefore = {}
  /\ source = FreeSource
  /\ firstRun = <<>>

NextHook ==
  \/ LoadFromCustomers
  \/ StartLocking
  \/ CancelLocking
  \/ HandleLockSeatClick
  \/ UnlockCustomer
  \/ Reset
  \/ RunLottery
  \/ Next
  \/ MergeTier0

SpecHook == InitHook /\ [][NextHook]_vars

\* ------------------------------------------- quality rater and score updater
\* assignSeatQuality and calculateScoreUpdates on their own, over populations
\* large enough for all five quality bands (the 'far' band needs seven rated
\* assignments).  A population is n applicants of one pastScore, each a party
\* of one; applicant v (if any) is a priority applicant; the last u of them
\* found no seat; the seated ones got totalScores that fall (or rise) pairwise
\* along the assignment order, applicants 2k-1 and 2k holding equal ones.
\* PastScores are in tenths: 0.5 and 15.0 lie outside the typical domain, which
\* neither the Application type nor the customer import enforces.
PastScores == {5, 10, 30, 50, 65, 90, 100, 150}

PopulationApps(n, v, p) ==
  [k \in 1..n |->
     [id |-> k, groupSize |-> 1,
      isInvitation |-> (k = v /\ k % 2 = 1), isRelation |-> (k = v /\ k % 2 = 0),
      pastScore |-> p,
      lastResult |-> IF k % 3 = 0 THEN "lose" ELSE IF k % 3 = 1 THEN "none" ELSE "win"]]

PopulationAssignments(apps, seated, rising) ==
  [k \in 1..seated |->
     [applicationId |-> apps[k].id, seatIds |-> <<k>>,
      totalScore |-> [sum |-> 100 * (IF rising THEN (k + 1) \div 2
                                     ELSE (seated + 2 - k) \div 2),
                      n |-> 1],
      tier |-> TierOf(apps[k]), seatQuality |-> "none"]]

\* The state in which steps 8-9 of assignSeats start for such a population.
InitScores ==
  \E n \in 1..MaxPopulation, v \in 0..MaxPopulation, u \in 0..2, p \in PastScores,
     rising \in BOOLEAN :
    /\ v <= n /\ u <= n
    /\ seats = <<>>
    /\ applications = PopulationApps(n, v, p)
    /\ skillWeight = DefaultSkillWeight
    /\ pc = "finish"
    /\ idx = 1
    /\ scoredSeats = <<>>
    /\ tier1Apps = <<>> /\ tier2Apps = <<>> /\ tier3Apps = <<>>
    /\ remaining = <<>> /\ tier3Selected = <<>> /\ lastPick = <<>>
    /\ assignments = PopulationAssignments(applications, n - u, rising)
    /\ assignedSeatIds = 1..(n - u) /\ soloSeatIds = 1..(n - u)
    /\ unassigned = [k \in 1..u |-> applications[n - u + k].id]
    /\ tier2OverflowCount = 0
    /\ stats = ZeroStats
    /\ scoreUpdates = <<>>
    /\ attempts = <<>>
    /\ round = 1
    /\ lostBefore = {}
    /\ source = FreeSource
    /\ firstRun = <<>>
    /\ HookUnused

NextScores ==
  \/ Finish
  \/ ComputeScoreUpdates

SpecScores == InitScores /\ [][NextScores]_vars

\* -------------------------------------------------------------- properties
\* What the properties speak of: the run has returned; the input is degenerate
\* (no available seat or no applicant); the applicant or the seat of an id.
Returned == pc \in {"done", "scored"}
Degenerate == Len(AvailableSeats) = 0 \/ Len(applications) = 0
AppOf(id) == CHOOSE app \in Range(applications) : app.id = id
SeatRec(id) == CHOOSE s \in Range(scoredSeats) : s.id = id
NoRepeat(seq) == \A i, j \in 1..Len(seq) : i # j => seq[i] # seq[j]
AssignedIds == [k \in 1..Len(assignments) |-> assignments[k].applicationId]
AttemptCount(id) == Cardinality({k \in 1..Len(attempts) : attempts[k].id = id})

\* The tier of an applicant as section 4.4 of the specification words it.
SpecTier(app) ==
  CASE app.isInvitation \/ app.isRelation -> 1
    [] ~(app.isInvitation \/ app.isRelation) /\ app.lastResult = "lose" -> 2
    [] OTHER -> 3

\* A contiguous run as sections 3 and 4.2 word it: seats of one block and one
\* row whose columns step by exactly one.  A seat without row or col is in no
\* run with another seat.
Contiguous(ids) ==
  \A k \in 1..Len(ids) :
    /\ SeatRec(ids[k]).hasBlock = SeatRec(ids[1]).hasBlock
    /\ SeatRec(ids[k]).blockId = SeatRec(ids[1]).blockId
    /\ SeatRec(ids[k]).hasRow /\ SeatRec(ids[k]).hasCol
    /\ SeatRec(ids[k]).row = SeatRec(ids[1]).row
    /\ k > 1 => SeatRec(ids[k]).col = SeatRec(ids[k - 1]).col + 1

\* The free seats when `assigned` are taken, and their runs of n seats (any
\* single free seat is a run of one).
FreeIds(assigned) == {scoredSeats[i].id : i \in 1..Len(scoredSeats)} \ assigned
FreeRuns(n, assigned) ==
  {q \in [1..n -> FreeIds(assigned)] : n = 1 \/ Contiguous(q)}
RunSum(q) == SumSeq([k \in 1..Len(q) |-> SeatRec(q[k]).score])

\* Candidate order: row groups by first appearance in the list of free seats,
\* then ascending start column.
SameRow(s, u) ==
  IF s.hasRow /\ s.hasCol
  THEN u.hasRow /\ u.hasCol /\ u.hasBlock = s.hasBlock /\ u.blockId = s.blockId /\ u.row = s.row
  ELSE u.id = s.id
FirstSeen(q, assigned) ==
  SetMin({i \in 1..Len(scoredSeats) :
            scoredSeats[i].id \notin assigned /\ SameRow(SeatRec(q[1]), scoredSeats[i])})
EarlierRun(a, b, assigned) ==
  \/ FirstSeen(a, assigned) < FirstSeen(b, assigned)
  \/ /\ FirstSeen(a, assigned) = FirstSeen(b, assigned)
     /\ ColKey(SeatRec(a[1])) < ColKey(SeatRec(b[1]))

\* C1: no seat id is granted twice, neither to two Assignments nor twice within
\* one Assignment, at any moment of any run.
C1_NoSeatGrantedTwice ==
  NoRepeat(Flatten([k \in 1..Len(assignments) |-> assignments[k].seatIds]))

\* C1 witness: a finished run with several Assignments, a party among them, and
\* an applicant turned away.
C1_Witness ==
  /\ Returned /\ Len(assignments) >= 2 /\ unassigned # <<>>
  /\ \E k \in 1..Len(assignments) : Len(assignments[k].seatIds) >= 2

\* C2: every Assignment holds exactly groupSize seats of its applicant, and
\* once the run has returned every applicant either has such an Assignment or
\* is listed unassigned.
C2_FullPartyOrUnassigned ==
  /\ \A k \in 1..Len(assignments) :
       Len(assignments[k].seatIds) = AppOf(assignments[k].applicationId).groupSize
  /\ Returned =>
       \A app \in Range(applications) :
         \/ app.id \in Range(unassigned)
         \/ \E k \in 1..Len(assignments) : assignments[k].applicationId = app.id

\* C2 witness: a party was turned away although free seats were left (a partial
\* seating was possible), and another party was seated.
C2_Witness ==
  /\ Returned
  /\ \E app \in Range(applications) :
       /\ app.groupSize >= 2 /\ app.id \in Range(unassigned)
       /\ Cardinality(assignedSeatIds) < Len(scoredSeats)
  /\ \E k \in 1..Len(assignments) : Len(assignments[k].seatIds) >= 2

\* C3: once the run has returned (normally or by the short circuit), the ids in
\* unassigned and the applicationIds of the assignments are pairwise distinct
\* and together are exactly the applicants' ids.
C3_Partition ==
  Returned =>
    /\ NoRepeat(unassigned \o AssignedIds)
    /\ Range(unassigned \o AssignedIds) = {app.id : app \in Range(applications)}

\* C3 witness: a normal run of three applicants with winners and losers.
C3_Witness ==
  /\ Returned /\ ~Degenerate /\ Len(applications) >= 3
  /\ unassigned # <<>> /\ assignments # <<>>

\* Tier order of the attempts: an applicant is attempted only when every
\* applicant of a lower-numbered tier has been attempted.
TierOrdered ==
  /\ \A a, b \in Range(applications) :
       SpecTier(a) < SpecTier(b) /\ AttemptCount(b.id) > 0 => AttemptCount(a.id) > 0
  /\ \A j, k \in 1..Len(attempts) :
       j < k => SpecTier(AppOf(attempts[j].id)) <= SpecTier(AppOf(attempts[k].id))

\* C4 as claimed: attempts are ordered by tier and, in every run, each applicant
\* receives exactly one attempt.
C4_EveryRunAttemptsAll ==
  /\ TierOrdered
  /\ Returned => \A app \in Range(applications) : AttemptCount(app.id) = 1

\* C4 as amended: attempts are ordered by tier; no applicant is attempted twice;
\* a run that does not short-circuit attempts every applicant exactly once,
\* failures included; a run that short-circuits attempts nobody.
C4_TierOrderAndOneAttempt ==
  /\ TierOrdered
  /\ \A app \in Range(applications) : AttemptCount(app.id) <= 1
  /\ Returned /\ ~Degenerate => \A app \in Range(applications) : AttemptCount(app.id) = 1
  /\ Returned /\ Degenerate => attempts = <<>>

\* C4 witness: a normal run with attempts in all three tiers, one of which
\* failed before a later one succeeded.
C4_Witness ==
  /\ Returned /\ ~Degenerate
  /\ {SpecTier(app) : app \in Range(applications)} = {1, 2, 3}
  /\ \E j, k \in 1..Len(attempts) :
       j < k /\ attempts[j].seatIds = <<>> /\ attempts[k].seatIds # <<>>

\* C5: the seats of every Assignment of a party of two or more share one block
\* and one row, and their columns, as listed, step by exactly one.
C5_PartiesSitContiguously ==
  \A k \in 1..Len(assignments) :
    Len(assignments[k].seatIds) >= 2 => Contiguous(assignments[k].seatIds)

\* C6: when an attempt without solo bonus succeeds, the granted run is a
\* contiguous run of the free seats with the greatest sum (mean) of scores, and
\* among runs of equal sum it is the earliest in candidate order.
C6_BestRunEarliestOnTies ==
  \A t \in Range(attempts) :
    t.seatIds # <<>> /\ (t.groupSize > 1 \/ t.soloBefore = {}) =>
      /\ t.seatIds \in FreeRuns(t.groupSize, t.assignedBefore)
      /\ \A r \in FreeRuns(t.groupSize, t.assignedBefore) :
           /\ RunSum(r) <= RunSum(t.seatIds)
           /\ RunSum(r) = RunSum(t.seatIds) /\ r # t.seatIds
                => EarlierRun(t.seatIds, r, t.assignedBefore)

\* C7: an attempt returns none exactly when fewer free seats than the party
\* size are left or the free seats hold no contiguous run of that size.
C7_NoneIffNoRun ==
  \A t \in Range(attempts) :
    t.seatIds = <<>> <=>
      \/ Cardinality(FreeIds(t.assignedBefore)) < t.groupSize
      \/ FreeRuns(t.groupSize, t.assignedBefore) = {}

\* C8: once the applicants are classified, each is in exactly one tier list,
\* the one section 4.4 names for it (priority even after a loss), and every
\* Assignment carries the tier of its applicant.
C8_TierRule ==
  /\ \A k \in 1..Len(assignments) :
       assignments[k].tier = SpecTier(AppOf(assignments[k].applicationId))
  /\ pc # "start" /\ ~Degenerate =>
       /\ Len(tier1Apps) + Len(tier2Apps) + Len(tier3Apps) = Len(applications)
       /\ \A app \in Range(applications) :
            /\ app \in Range(tier1Apps) <=> SpecTier(app) = 1
            /\ app \in Range(tier2Apps) <=> SpecTier(app) = 2
            /\ app \in Range(tier3Apps) <=> SpecTier(app) = 3

\* C8 witness: a finished run that seated an invitation holder who lost last
\* time in tier 1, a rescue applicant in tier 2 and an open applicant in tier 3.
C8_Witness ==
  /\ Returned
  /\ \E k \in 1..Len(assignments) :
       /\ assignments[k].tier = 1
       /\ AppOf(assignments[k].applicationId).lastResult = "lose"
  /\ \E k \in 1..Len(assignments) : assignments[k].tier = 2
  /\ \E k \in 1..Len(assignments) : assignments[k].tier = 3

\* The rescue applicants of a round: not priority, left unassigned by the
\* previous round.
Rescued == {app \in Range(applications) : app.id \in lostBefore /\ ~IsPriority(app)}

Tier2Unassigned ==
  {k \in 1..Len(unassigned) : SpecTier(AppOf(unassigned[k])) = 2}

\* C10 as claimed: in every run tier2OverflowCount is the number of unassigned
\* tier-2 applicants.
C10_OverflowCountsEveryRun ==
  Returned => stats.tier2OverflowCount = Cardinality(Tier2Unassigned)

\* C10 as amended: in a run that does not short-circuit, tier2OverflowCount is
\* the number of unassigned tier-2 applicants (tier-1 and tier-3 failures are
\* not counted); in a run that short-circuits it is 0, although every
\* applicant, tier 2 included, is listed unassigned.
C10_OverflowCountsNormalRun ==
  /\ Returned /\ ~Degenerate => stats.tier2OverflowCount = Cardinality(Tier2Unassigned)
  /\ Returned /\ Degenerate => stats.tier2OverflowCount = 0

\* C10 witness: a normal run that turned away a tier-2 applicant and an
\* applicant of another tier.
C10_Witness ==
  /\ Returned /\ ~Degenerate
  /\ stats.tier2OverflowCount >= 1
  /\ Cardinality(Tier2Unassigned) < Len(unassigned)

\* The place of an applicant in the input list, and the ids a tier was attempted
\* for, in the order of the attempts.
PosOf(id) == SetMin({i \in 1..Len(applications) : applications[i].id = id})
AttemptedIds(t) ==
  LET of == SelectSeq(attempts, LAMBDA at : at.tier = t)
  IN [k \in 1..Len(of) |-> of[k].id]

\* C11: Tier-2 applicants are attempted in descending pastScore order, equal
\* scores in input order: of two Tier-2 attempts the earlier one is for the
\* higher pastScore or, at equal pastScore, for the applicant listed first; and
\* once a run that did not short-circuit has returned, every Tier-2 applicant
\* is among these attempts.
C11_Tier2ByPastScore ==
  /\ \A i, j \in 1..Len(AttemptedIds(2)) :
       i < j =>
         \/ AppOf(AttemptedIds(2)[i]).pastScore > AppOf(AttemptedIds(2)[j]).pastScore
         \/ /\ AppOf(AttemptedIds(2)[i]).pastScore = AppOf(AttemptedIds(2)[j]).pastScore
            /\ PosOf(AttemptedIds(2)[i]) < PosOf(AttemptedIds(2)[j])
  /\ Returned /\ ~Degenerate =>
       \A app \in Range(applications) :
         SpecTier(app) = 2 => app.id \in Range(AttemptedIds(2))

\* C11 witness: a returned run that attempted Tier 2 in the order 4, 7, 3 for
\* the input order 3, 4, 7 (pastScore 7.0, 9.0, 9.0).
C11_Witness ==
  /\ Returned
  /\ [i \in 1..Len(applications) |-> applications[i].id] = <<3, 4, 7>>
  /\ AttemptedIds(2) = <<4, 7, 3>>

IdsOf(apps) == [k \in 1..Len(apps) |-> apps[k].id]
IsPermutation(a, b) == Len(a) = Len(b) /\ NoRepeat(a) /\ NoRepeat(b) /\ Range(a) = Range(b)

\* C12: hybridSelection ends after as many passes as there are candidates and
\* returns a permutation of them.  While it selects, candidates are left and
\* the selected so far (one per pass) together with the ones left are the
\* candidates, each once; when it is over nothing is left and the ranked order
\* holds every Tier-3 candidate exactly once.
C12_HybridPermutation ==
  /\ pc = "select" =>
       /\ remaining # <<>>
       /\ IsPermutation(IdsOf(tier3Selected) \o IdsOf(remaining), IdsOf(tier3Apps))
  /\ pc \in {"tier3", "finish", "done", "scored"} =>
       /\ remaining = <<>>
       /\ IsPermutation(IdsOf(tier3Selected), IdsOf(tier3Apps))

\* C12 witness: three candidates ranked, after three passes, in an order that is
\* neither the input order nor the order by pastScore.
C12_Witness ==
  /\ pc = "tier3"
  /\ IdsOf(tier3Apps) = <<5, 6, 8>>
  /\ Len(tier3Selected) = 3
  /\ IdsOf(tier3Selected) = <<6, 8, 5>>

\* The first draw of a pass is strictly below skillWeight.
BelowSkillWeight(draw) == 10 * draw < skillWeight * RandDen

\* C13: in a pass of hybridSelection whose decision draw is strictly below
\* skillWeight the selected candidate is the one left with the highest
\* pastScore, the first in input order among equals; in any other pass it is
\* one of the candidates left, picked by the index Math.floor(r * k) over the k
\* left, an index that some draw r sends to each of them.
C13_SkillOrLuck ==
  lastPick # <<>> =>
    IF BelowSkillWeight(lastPick[1].draw)
    THEN \A c \in Range(lastPick[1].from) :
           \/ lastPick[1].chosen.pastScore > c.pastScore
           \/ /\ lastPick[1].chosen.pastScore = c.pastScore
              /\ PosOf(lastPick[1].chosen.id) <= PosOf(c.id)
    ELSE /\ lastPick[1].chosen \in Range(lastPick[1].from)
         /\ \A i \in 1..Len(lastPick[1].from) :
              \E r \in Draws : FloorDraw(r, Len(lastPick[1].from)) = i - 1

\* C13 witness: with skillWeight 0.5 and the draw 0.5 (not strictly below) the
\* pass over three candidates selects the one with the lowest pastScore.
C13_Witness ==
  /\ lastPick # <<>>
  /\ skillWeight = 5
  /\ 10 * lastPick[1].draw = skillWeight * RandDen
  /\ IdsOf(lastPick[1].from) = <<5, 8, 6>>
  /\ lastPick[1].chosen.id = 6

\* A pass below skillWeight over candidates that the sort had to reorder.
C13_SkillWitness ==
  /\ lastPick # <<>>
  /\ BelowSkillWeight(lastPick[1].draw)
  /\ IdsOf(tier3Apps) = <<5, 6, 8>>
  /\ IdsOf(lastPick[1].from) = <<8, 6>>
  /\ lastPick[1].chosen.id = 8

\* The rated population: the assignments whose tier is not 1, in assignment
\* order; the 0-based rank of its k-th member by descending totalScore, ties in
\* assignment order; the label of section 4.6 for rank i of N; the labels from
\* best to worst and the share of each band in percent.
Rated == SelectSeq(assignments, LAMBDA a : a.tier # 1)
RankOf(k) ==
  Cardinality({j \in 1..Len(Rated) :
                 \/ ScoreGreater(Rated[j], Rated[k])
                 \/ ~ScoreGreater(Rated[k], Rated[j]) /\ j < k})
SpecLabel(i, N) ==
  CASE 100 * i < 15 * N -> "top"
    [] 100 * i >= 15 * N /\ 100 * i < 40 * N -> "good"
    [] 100 * i >= 40 * N /\ 100 * i < 60 * N -> "normal"
    [] 100 * i >= 60 * N /\ 100 * i < 85 * N -> "back"
    [] OTHER -> "far"
Labels == <<"top", "good", "normal", "back", "far">>
BandShare == <<15, 25, 20, 25, 15>>
LabelPlace(q) == CHOOSE b \in 1..5 : Labels[b] = q
Bucket(b) == Cardinality({k \in 1..Len(Rated) : Rated[k].seatQuality = Labels[b]})

\* C14: once assignSeats has returned, an Assignment carries a seatQuality
\* label exactly when its tier is not 1; the rated assignment of 0-based rank i
\* among the N rated ones carries the label of its percentile 100*i/N; each of
\* the five buckets differs from its 15/25/20/25/15 percent share of N by at
\* most one; and a higher totalScore never carries a worse label.
C14_QualityLabels ==
  Returned =>
    /\ \A k \in 1..Len(assignments) :
         (assignments[k].seatQuality # "none") <=> (assignments[k].tier # 1)
    /\ \A k \in 1..Len(Rated) : Rated[k].seatQuality = SpecLabel(RankOf(k), Len(Rated))
    /\ \A b \in 1..5 :
         /\ 100 * Bucket(b) - BandShare[b] * Len(Rated) <= 100
         /\ BandShare[b] * Len(Rated) - 100 * Bucket(b) <= 100
    /\ \A j, k \in 1..Len(Rated) :
         ScoreGreater(Rated[j], Rated[k]) =>
           LabelPlace(Rated[j].seatQuality) <= LabelPlace(Rated[k].seatQuality)

\* C14 witness: a returned run with a Tier-1 assignment and seven rated ones,
\* two of them with equal totalScore but different labels, one labelled far.
C14_Witness ==
  /\ Returned
  /\ \E k \in 1..Len(assignments) : assignments[k].tier = 1
  /\ Len(Rated) = 7
  /\ \E k \in 1..Len(Rated) : Rated[k].seatQuality = "far"
  /\ \E j, k \in 1..Len(Rated) :
       /\ Rated[j].totalScore = Rated[k].totalScore
       /\ Rated[j].seatQuality # Rated[k].seatQuality

\* The score rules as section 4.7 words them, in tenths: the delta of a label,
\* the clamp to [1.0, 10.0]; the ScoreUpdates issued for an applicant; the
\* score updates have been computed.
SpecDelta(q) ==
  CASE q = "top" -> -40 [] q = "good" -> -15 [] q = "normal" -> 0
    [] q = "back" -> 15 [] q = "far" -> 40
SpecClamp(v) == IF v < 10 THEN 10 ELSE IF v > 100 THEN 100 ELSE v
UpdatesOf(id) == {k \in 1..Len(scoreUpdates) : scoreUpdates[k].applicationId = id}
Scored == pc = "scored"
SpecPriority(app) == app.isInvitation \/ app.isRelation

\* C15: every seated non-priority applicant gets a ScoreUpdate, and each of
\* its ScoreUpdates has nextScore = clamp(pastScore + d, 1.0, 10.0), d being
\* the delta of the seatQuality of the applicant's Assignment, change =
\* nextScore - pastScore and lastResult 'win'.
C15_SeatedScore ==
  Scored =>
    \A k \in 1..Len(assignments) :
      ~SpecPriority(AppOf(assignments[k].applicationId)) =>
        /\ UpdatesOf(assignments[k].applicationId) # {}
        /\ \A u \in UpdatesOf(assignments[k].applicationId) :
             /\ scoreUpdates[u].nextScore =
                  SpecClamp(AppOf(assignments[k].applicationId).pastScore
                            + SpecDelta(assignments[k].seatQuality))
             /\ scoreUpdates[u].change =
                  scoreUpdates[u].nextScore - AppOf(assignments[k].applicationId).pastScore
             /\ scoreUpdates[u].lastResult = "win"

\* C15 witness: pastScore 9.0; the applicant rated far is clamped to 10.0
\* (change +1.0), the one rated top goes to 5.0, and all five labels occur.
C15_Witness ==
  /\ Scored
  /\ \A b \in 1..5 : \E u \in 1..Len(scoreUpdates) :
       scoreUpdates[u].seatQuality = Labels[b] /\ scoreUpdates[u].currentScore = 90
  /\ \E u \in 1..Len(scoreUpdates) :
       /\ scoreUpdates[u].seatQuality = "far" /\ scoreUpdates[u].lastResult = "win"
       /\ scoreUpdates[u].nextScore = 100 /\ scoreUpdates[u].change = 10
  /\ \E u \in 1..Len(scoreUpdates) :
       /\ scoreUpdates[u].seatQuality = "top" /\ scoreUpdates[u].nextScore = 50
       /\ ~SpecPriority(AppOf(scoreUpdates[u].applicationId))

\* C16: every unseated non-priority applicant gets a ScoreUpdate, and each of
\* its ScoreUpdates has nextScore = clamp(pastScore + 6.0, 1.0, 10.0),
\* seatQuality 'lose' and lastResult 'lose'; a pastScore of 9.0 gives 10.0.
C16_UnseatedScore ==
  Scored =>
    \A k \in 1..Len(unassigned) :
      ~SpecPriority(AppOf(unassigned[k])) =>
        /\ UpdatesOf(unassigned[k]) # {}
        /\ \A u \in UpdatesOf(unassigned[k]) :
             /\ scoreUpdates[u].nextScore = SpecClamp(AppOf(unassigned[k]).pastScore + 60)
             /\ scoreUpdates[u].seatQuality = "lose"
             /\ scoreUpdates[u].lastResult = "lose"
             /\ AppOf(unassigned[k]).pastScore = 90 => scoreUpdates[u].nextScore = 100

\* C16 witness: an unseated non-priority applicant with pastScore 9.0 whose
\* ScoreUpdate has nextScore 10.0.
C16_Witness ==
  /\ Scored
  /\ \E k \in 1..Len(unassigned) :
       /\ ~SpecPriority(AppOf(unassigned[k]))
       /\ AppOf(unassigned[k]).pastScore = 90
       /\ \E u \in UpdatesOf(unassigned[k]) :
            scoreUpdates[u].nextScore = 100 /\ scoreUpdates[u].lastResult = "lose"

\* C17: every ScoreUpdate of a priority applicant has nextScore = pastScore and
\* change = 0, seated or not; every priority applicant, seated or not, gets
\* one, and the one of an unseated priority applicant has lastResult 'lose'.
C17_PriorityKeepsScore ==
  Scored =>
    /\ \A app \in Range(applications) :
         SpecPriority(app) =>
           /\ UpdatesOf(app.id) # {}
           /\ \A u \in UpdatesOf(app.id) :
                scoreUpdates[u].nextScore = app.pastScore /\ scoreUpdates[u].change = 0
    /\ \A k \in 1..Len(unassigned) :
         SpecPriority(AppOf(unassigned[k])) =>
           \A u \in UpdatesOf(unassigned[k]) : scoreUpdates[u].lastResult = "lose"

\* C17 witness: an unseated priority applicant with pastScore 5.0 whose
\* ScoreUpdate keeps 5.0 with change 0 and lastResult 'lose'.
C17_Witness ==
  /\ Scored
  /\ \E k \in 1..Len(unassigned) :
       /\ SpecPriority(AppOf(unassigned[k]))
       /\ AppOf(unassigned[k]).pastScore = 50
       /\ \E u \in UpdatesOf(unassigned[k]) :
            /\ scoreUpdates[u].nextScore = 50 /\ scoreUpdates[u].change = 0
            /\ scoreUpdates[u].lastResult = "lose"

\* A seated priority applicant whose ScoreUpdate keeps the score.
C17_SeatedWitness ==
  /\ Scored
  /\ \E k \in 1..Len(assignments) :
       /\ SpecPriority(AppOf(assignments[k].applicationId))
       /\ \E u \in UpdatesOf(assignments[k].applicationId) :
            /\ scoreUpdates[u].nextScore = 50 /\ scoreUpdates[u].currentScore = 50
            /\ scoreUpdates[u].lastResult = "win"

\* C18: every ScoreUpdate, of whatever applicant and whatever pastScore, has
\* 1.0 <= nextScore <= 10.0.
C18_ScoreBounds ==
  \A u \in 1..Len(scoreUpdates) :
    scoreUpdates[u].nextScore >= 10 /\ scoreUpdates[u].nextScore <= 100

\* The bounds hold for every applicant that is not a priority applicant, and
\* for the priority applicants whose pastScore lies in [1.0, 10.0].
ScoreBoundsButPriority ==
  \A u \in 1..Len(scoreUpdates) :
    \/ scoreUpdates[u].nextScore >= 10 /\ scoreUpdates[u].nextScore <= 100
    \/ /\ SpecPriority(AppOf(scoreUpdates[u].applicationId))
       /\ scoreUpdates[u].currentScore < 10 \/ scoreUpdates[u].currentScore > 100

\* C19: for the assignments and the unassigned list of one run of assignSeats
\* and the applicant list of that run, calculateScoreUpdates returns exactly
\* one ScoreUpdate per applicant and none else; its lastResult is 'win' exactly
\* when the applicant has an Assignment and 'lose' exactly when the applicant's
\* id is listed in unassigned.
C19_OneUpdatePerApplicant ==
  Scored =>
    /\ Len(scoreUpdates) = Len(applications)
    /\ \A app \in Range(applications) :
         /\ Cardinality(UpdatesOf(app.id)) = 1
         /\ \A u \in UpdatesOf(app.id) :
              /\ scoreUpdates[u].lastResult = "win" <=> app.id \in Range(AssignedIds)
              /\ scoreUpdates[u].lastResult = "lose" <=> app.id \in Range(unassigned)

\* C19 witness: a run of three applicants, two seated and one not, with three
\* ScoreUpdates, two of them 'win' and one 'lose'.
C19_Witness ==
  /\ Scored
  /\ Len(applications) = 3 /\ Len(assignments) = 2 /\ Len(unassigned) = 1
  /\ Len(scoreUpdates) = 3
  /\ Cardinality({u \in 1..3 : scoreUpdates[u].lastResult = "win"}) = 2
  /\ Cardinality({u \in 1..3 : scoreUpdates[u].lastResult = "lose"}) = 1
  /\ attempts # <<>>

\* The ScoreUpdates of non-priority applicants whose pastScore lies in
\* [1.0, 10.0]: those of a loss, those of a seat.
InRange(u) ==
  /\ ~SpecPriority(AppOf(scoreUpdates[u].applicationId))
  /\ scoreUpdates[u].currentScore >= 10 /\ scoreUpdates[u].currentScore <= 100
LossUpdates == {u \in 1..Len(scoreUpdates) : InRange(u) /\ scoreUpdates[u].lastResult = "lose"}
SeatUpdates == {u \in 1..Len(scoreUpdates) : InRange(u) /\ scoreUpdates[u].lastResult = "win"}

\* C20: for a non-priority applicant with pastScore in [1.0, 10.0], the
\* nextScore of a loss is at least the pastScore, at least the nextScore of
\* every seated applicant of the same pastScore in the same run, and at least
\* the nextScore the applicant would get when seated with any of the labels.
C20_LossBeatsAnySeat ==
  Scored =>
    \A u \in LossUpdates :
      /\ scoreUpdates[u].nextScore >= scoreUpdates[u].currentScore
      /\ \A w \in SeatUpdates :
           scoreUpdates[w].currentScore = scoreUpdates[u].currentScore =>
             scoreUpdates[u].nextScore >= scoreUpdates[w].nextScore
      /\ \A b \in 1..5 :
           scoreUpdates[u].nextScore >=
             WinUpdate([applicationId |-> scoreUpdates[u].applicationId,
                        seatQuality |-> Labels[b]],
                       AppOf(scoreUpdates[u].applicationId)).nextScore

\* C20 witness: pastScore 3.0; the loss gives 9.0, the seat rated far in the
\* same run gives 7.0 and the seat rated top 1.0.
C20_Witness ==
  /\ Scored
  /\ \E u \in LossUpdates :
       /\ scoreUpdates[u].currentScore = 30 /\ scoreUpdates[u].nextScore = 90
       /\ \E w \in SeatUpdates :
            scoreUpdates[w].seatQuality = "far" /\ scoreUpdates[w].nextScore = 70
       /\ \E w \in SeatUpdates :
            scoreUpdates[w].seatQuality = "top" /\ scoreUpdates[w].nextScore = 10

\* C21: on a seat list without a non-disabled seat, or an empty applicant
\* list, assignSeats goes straight from its entry to its return (no scoring,
\* no attempt, nothing that could throw), and the result has no assignment,
\* unassigned equal to the applicant ids in input order, availableSeats 0,
\* totalPeopleAssigned 0 and the three tier counts 0.
C21_DegenerateResult ==
  Degenerate =>
    /\ pc \in {"start", "done", "scored"}
    /\ attempts = <<>> /\ scoredSeats = <<>>
    /\ Returned =>
         /\ assignments = <<>>
         /\ unassigned = IdsOf(applications)
         /\ stats.availableSeats = 0
         /\ stats.totalPeopleAssigned = 0
         /\ stats.tier1Count = 0 /\ stats.tier2Count = 0 /\ stats.tier3Count = 0

\* C21 witness: three applicants of three tiers and every seat disabled; the
\* run has returned with all three listed unassigned in input order.
C21_Witness ==
  /\ Returned
  /\ Len(AvailableSeats) = 0 /\ Len(seats) > 0
  /\ IdsOf(applications) = <<2, 4, 5>>
  /\ unassigned = <<2, 4, 5>>
  /\ stats.totalSeats = Len(seats) /\ stats.totalApplications = 3

\* The other degenerate input: free seats but no applicant.
C21_NoApplicantWitness ==
  /\ Returned
  /\ Len(AvailableSeats) > 0 /\ applications = <<>>
  /\ unassigned = <<>> /\ stats.availableSeats = 0

C22_ShuffleWitness ==
  /\ source.mode = "replay"
  /\ pc = "done"
  /\ IdsOf(tier1Apps) = <<2, 1>>
  /\ Len(source.log) >= 2

C23_SortWitness ==
  /\ Returned
  /\ applications = <<Roster[3], Roster[4], Roster[7]>>
  /\ IdsOf(tier2Apps) = <<4, 7, 3>>

Merged == pc = "merged"
DisabledIds == {seats[i].id : i \in {k \in DOMAIN seats : seats[k].isDisabled}}
Holders(seatId) ==
  {k \in DOMAIN lotteryAssignments : seatId \in Range(lotteryAssignments[k].seatIds)}

\* C24: no Assignment of the engine contains a seat that was disabled in the
\* seat list it was given; and when runLottery has merged its result, no
\* engine assignment contains a seat of any LockedSeat entry, so that in the
\* merged list (Tier 0 in front of the engine's assignments) every seat has
\* at most one holder and no holder has a seat twice.
C24_UnavailableNeverGranted ==
  /\ \A k \in DOMAIN assignments : Range(assignments[k].seatIds) \cap DisabledIds = {}
  /\ Merged =>
       /\ \A k \in DOMAIN assignments :
            Range(assignments[k].seatIds) \cap FlatSeatIds(lockedSeats) = {}
       /\ \A i \in DOMAIN blocks : Cardinality(Holders(blocks[i].id)) <= 1
       /\ \A k \in DOMAIN lotteryAssignments : NoRepeat(lotteryAssignments[k].seatIds)

\* C24 witness: a merged run in a venue with every seat enabled, where a
\* locked party holds the premium seat (the seat the engine would grant
\* first) and the engine has seated two applicants on other seats.
C24_Witness ==
  /\ Merged
  /\ \A i \in DOMAIN blocks : ~blocks[i].isDisabled
  /\ 4 \in FlatSeatIds(lockedSeats)
  /\ Len(assignments) >= 2
  /\ Len(lotteryAssignments) = Len(lockedSeats) + Len(assignments)

\* A merged run in the venue whose non-premium seats the editor disabled: the
\* engine seated an applicant, on the one enabled seat.
C24_EditorDisabledWitness ==
  /\ Merged
  /\ \E i \in DOMAIN blocks : blocks[i].isDisabled
  /\ assignments # <<>>

FreePremium(assigned) ==
  {s \in Range(scoredSeats) : s.isPremium /\ s.id \notin assigned}

\* C25: every available premium seat scores strictly higher than every
\* available non-premium seat, and the solo bonus does not change that: a
\* party of one that is attempted while a premium seat is free is granted a
\* premium seat, and no party of one is left unseated with a premium seat
\* free.
C25_PremiumFirst ==
  /\ \A p, q \in Range(scoredSeats) : p.isPremium /\ ~q.isPremium => p.score > q.score
  /\ \A k \in DOMAIN attempts :
       attempts[k].groupSize = 1 /\ FreePremium(attempts[k].assignedBefore) # {} =>
         /\ Len(attempts[k].seatIds) = 1
         /\ SeatRec(attempts[k].seatIds[1]).isPremium
  /\ Returned =>
       \A i \in DOMAIN unassigned :
         AppOf(unassigned[i]).groupSize = 1 => FreePremium(assignedSeatIds) = {}

\* C25 witness: seats 2 and 3 are premium; a first solo guest holds seat 3,
\* the free seats 1 and 4 next to it carry the solo bonus, and the second
\* solo guest was granted the premium seat 2, which is not next to seat 3.
C25_Witness ==
  /\ seats[2].isPremium /\ seats[3].isPremium /\ ~seats[4].isPremium
  /\ \E k \in DOMAIN attempts :
       /\ attempts[k].groupSize = 1
       /\ attempts[k].soloBefore = {3}
       /\ attempts[k].assignedBefore = {3}
       /\ SoloAdjacentIds(scoredSeats, {3}, {3}) = {1, 4}
       /\ attempts[k].seatIds = <<2>>

\* C26: a seat with undefined row or col is never placed in a run with
\* another seat: no Assignment of a party of two or more contains such a seat.
C26_LoneSeatNeverInRun ==
  \A k \in DOMAIN assignments :
    Len(assignments[k].seatIds) >= 2 =>
      \A j \in DOMAIN assignments[k].seatIds :
        SeatRec(assignments[k].seatIds[j]).hasRow /\ SeatRec(assignments[k].seatIds[j]).hasCol

Abs(n) == IF n < 0 THEN -n ELSE n
FreeAt(assigned) == {s \in Range(scoredSeats) : s.id \notin assigned}

\* s is one of the 8 neighbours (row and col within one, same block) of a seat
\* of `solo`.
NextToSolo(s, solo) ==
  /\ s.hasBlock /\ s.hasRow /\ s.hasCol
  /\ \E h \in Range(scoredSeats) :
       /\ h.id \in solo /\ h.id # s.id
       /\ h.hasBlock /\ h.hasRow /\ h.hasCol
       /\ h.blockId = s.blockId
       /\ Abs(h.row - s.row) <= 1 /\ Abs(h.col - s.col) <= 1

\* Five times (score + bonus), scores being scaled by the unit: the bonus is a
\* fifth of max(highest free-seat score, 1), once.
BonusBase(free) == Max(SetMax({s.score : s \in free}), (CHOOSE s \in free : TRUE).unit)
ValueWithBonus(s, free, solo) ==
  5 * s.score + (IF NextToSolo(s, solo) THEN BonusBase(free) ELSE 0)

PickIds(groupSize, assigned, solo) ==
  LET picked == findAndAllocateSeats(groupSize, scoredSeats, assigned, solo)
  IN [k \in 1..Len(picked) |-> picked[k].id]

\* C27: a party of one attempted when a solo guest is already seated gets a
\* seat that maximises score + bonus over the free seats, the bonus being 20%
\* of max(highest free-seat score, 1) for a free seat that is an 8-neighbour
\* of a seat held by an earlier solo guest, counted once however many solo
\* neighbours it has; for a party of two or more the granted run is the same
\* whatever seats solo guests hold.
C27_SoloBonus ==
  \A k \in DOMAIN attempts :
    /\ attempts[k].groupSize = 1 /\ attempts[k].soloBefore # {}
         /\ attempts[k].seatIds # <<>> =>
         \A s \in FreeAt(attempts[k].assignedBefore) :
           ValueWithBonus(SeatRec(attempts[k].seatIds[1]),
                          FreeAt(attempts[k].assignedBefore), attempts[k].soloBefore)
             >= ValueWithBonus(s, FreeAt(attempts[k].assignedBefore), attempts[k].soloBefore)
    /\ attempts[k].groupSize >= 2 =>
         \A solo \in {{}, attempts[k].soloBefore, attempts[k].assignedBefore} :
           PickIds(attempts[k].groupSize, attempts[k].assignedBefore, solo)
             = attempts[k].seatIds

\* C27 witness: the premium seat is disabled, solo guests hold seats 5 and 3,
\* and the third solo guest got seat 1 (next to seat 3) ahead of seat 2, which
\* has the same score and comes first among the candidates: the bonus, here
\* 20% of the floor 1 (both free seats score 0), decided.
C27_Witness ==
  \E k \in DOMAIN attempts :
    /\ attempts[k].groupSize = 1
    /\ attempts[k].soloBefore = {3, 5}
    /\ attempts[k].assignedBefore = {3, 5}
    /\ attempts[k].seatIds = <<1>>
    /\ SeatRec(1).score = 0 /\ SeatRec(2).score = 0
    /\ 2 \in {s.id : s \in FreeAt({3, 5})}

\* A party of two attempted after a solo guest was seated, granted a run.
C27_PartyWitness ==
  \E k \in DOMAIN attempts :
    /\ attempts[k].groupSize = 2
    /\ attempts[k].soloBefore # {}
    /\ Len(attempts[k].seatIds) = 2

\* A solo guest seated on a free seat that has two solo neighbours.
C27_TwoNeighboursWitness ==
  \E k \in DOMAIN attempts :
    /\ attempts[k].groupSize = 1
    /\ attempts[k].seatIds # <<>>
    /\ Cardinality({h \in attempts[k].soloBefore :
                      NextToSolo(SeatRec(attempts[k].seatIds[1]), {h})}) = 2

\* The geometry score of a seat of the caller's list, scaled by maxDistance:
\* max(0, 100 - 100 * distance / maxDistance), plus 1000 for a premium seat.
GeometryScore(id) ==
  LET seat == CHOOSE s \in Range(seats) : s.id = id
      unit == MaxDistance(AvailableSeats)
      d == calculateDistance(seat.x, seat.y, StagePosition.x, StagePosition.y)
  IN Max(0, 100 * unit - 100 * d) + (IF seat.isPremium THEN PremiumBonus * unit ELSE 0)
GeometrySum(a) == SumSeq([j \in 1..Len(a.seatIds) |-> GeometryScore(a.seatIds[j])])
AttemptOf(id) == CHOOSE t \in Range(attempts) : t.id = id

\* C28: the totalScore of every Assignment is the arithmetic mean of the
\* geometry scores of its seats, without the solo bonus; so the quality labels
\* follow the order of those means and stats.averageScore is the mean of those
\* means over the assignments.
C28_TotalScoreWithoutBonus ==
  /\ \A k \in DOMAIN assignments :
       /\ assignments[k].totalScore.n = Len(assignments[k].seatIds)
       /\ assignments[k].totalScore.sum = GeometrySum(assignments[k])
  /\ Returned =>
       /\ \A j, k \in DOMAIN assignments :
            /\ assignments[j].tier # 1 /\ assignments[k].tier # 1
            /\ GeometrySum(assignments[j]) * Len(assignments[k].seatIds)
                 > GeometrySum(assignments[k]) * Len(assignments[j].seatIds)
            => LabelPlace(assignments[j].seatQuality) <= LabelPlace(assignments[k].seatQuality)
       /\ assignments # <<>> =>
            LET p == Product([k \in DOMAIN assignments |-> Len(assignments[k].seatIds)])
            IN stats.averageScore.sum * (p * Len(assignments))
                 = stats.averageScore.n *
                     SumSeq([k \in DOMAIN assignments |->
                               GeometrySum(assignments[k]) * (p \div Len(assignments[k].seatIds))])

\* C28 witness: a returned run in the full venue where the third solo guest
\* got seat 3 on the strength of the bonus (80 + 20 against the 60 + 20 of
\* seats 1 and 2) and is recorded, and rated, with the plain 80.
C28_Witness ==
  /\ Returned
  /\ \A i \in DOMAIN seats : ~seats[i].isDisabled
  /\ \E k \in DOMAIN assignments :
       /\ assignments[k].seatIds = <<3>>
       /\ assignments[k].tier # 1
       /\ assignments[k].seatQuality # "none"
       /\ AttemptOf(assignments[k].applicationId).soloBefore = {4, 5}
       /\ NextToSolo(SeatRec(3), {4})
       /\ assignments[k].totalScore = [sum |-> 80 * SeatRec(3).unit, n |-> 1]
  /\ stats.averageScore.n > 0

LockedWellFormed ==
  /\ \A i \in DOMAIN lockedSeats :
       /\ Len(lockedSeats[i].seatIds) = lockedSeats[i].groupSize
       /\ NoRepeat(lockedSeats[i].seatIds)
  /\ \A i, j \in DOMAIN lockedSeats :
       i # j => Range(lockedSeats[i].seatIds) \cap Range(lockedSeats[j].seatIds) = {}

\* C29: after any sequence of startLocking, handleLockSeatClick,
\* cancelLocking, unlockCustomer and reset (and of the hook's other calls),
\* every LockedSeat entry holds exactly groupSize pairwise distinct seat ids
\* and no seat id is in two entries; and a cancelLocking step drops the
\* partial placement and leaves the finalized entries as they were.
C29_LockingInvariants ==
  /\ []LockedWellFormed
  /\ [][CancelLocking => lockingState' = <<>> /\ lockedSeats' = lockedSeats]_vars

\* C29 witness: two finalized entries, one of a party of 2 and one of a
\* single guest, on three different seats.
C29_Witness ==
  /\ Len(lockedSeats) = 2
  /\ lockedSeats[1].groupSize = 1 /\ lockedSeats[2].groupSize = 2
  /\ Cardinality(FlatSeatIds(lockedSeats)) = 3
  /\ lockingState = <<>>

\* A party of 2 with one seat placed while another party's entry is final:
\* the state cancelLocking discards from.
C29_PartialWitness ==
  /\ Len(lockedSeats) = 1
  /\ lockingState # <<>>
  /\ Len(lockingState[1].placedSeatIds) = 1
  /\ lockingState[1].remainingSeats = 1

Tier0Ids ==
  {lotteryAssignments[k].applicationId :
     k \in {j \in DOMAIN lotteryAssignments : lotteryAssignments[j].tier = 0}}

\* C30: when runLottery has merged its result, whatever the order of
\* loadFromCustomers, startLocking and handleLockSeatClick before the run, no
\* customer id is both the id of a Tier-0 assignment and the id of an
\* applicant handed to the engine.
C30_LockedNotApplicant ==
  Merged => Tier0Ids \cap Range(IdsOf(applications)) = {}
====
